---- MODULE Spec2Model ----
(***************************************************************************)
(* Staged ingestion pipeline of the TMDB backend: the catalog store with   *)
(* its production tables (movies, credits, genres, people) and pending     *)
(* tables (movies_pending, ...), the promotion transaction, the export     *)
(* verifier and the orchestrator strategies.                               *)
(***************************************************************************)
EXTENDS Integers, Sequences, FiniteSets, TLC

(***************************************************************************)
(* Bounds of the model.                                                    *)
(***************************************************************************)
MaxId == 6            \* movie IDs of the upstream catalog are 1..MaxId
MaxTestLimit == 2     \* test_limit arguments are 0 (unset) .. MaxTestLimit
MaxVerifyId == 3      \* IDs of the generated verifier inputs are 1..MaxVerifyId

IDs == 1..MaxId

(***************************************************************************)
(* Dates are day numbers; a missing release date (Python None, SQL NULL)   *)
(* is NoDate.  Today is date.today(); a year has two days in the model.    *)
(***************************************************************************)
NoDate == 0
Today == 3
YearOf(d) == (d + 1) \div 2
DefaultEarliestYear == 0

include_adult == FALSE
MAX_PAGES == 500

(***************************************************************************)
(* The upstream catalog: what GET /movie/{id} answers for each ID.         *)
(***************************************************************************)
CatalogDate(id) ==
    CASE id = 1 -> 1
      [] id = 2 -> 2
      [] id = 3 -> 3
      [] id = 4 -> NoDate
      [] id = 5 -> 3
      [] OTHER  -> 4

CatalogAdult(id) == id = 5

\* The IDs the upstream knows; a fetch of another ID is answered 404.
CatalogIds == {1, 2, 3, 4, 5}

CreditData(pid, type) == [person_id |-> pid, credit_type |-> type]

\* MovieData.from_tmdb of the upstream answer for id; ver 2 is what the
\* upstream answered before an edit (other title, genres and credits).
MovieData(id, ver) ==
    [id           |-> id,
     title        |-> ver,
     release_date |-> CatalogDate(id),
     adult        |-> CatalogAdult(id),
     genres       |-> IF ver = 1 THEN <<"Action", "Drama">> ELSE <<"Drama", "Drama">>,
     credits      |-> IF ver = 1
                        THEN <<CreditData(100 + id, "cast"), CreditData(200, "crew")>>
                        ELSE <<CreditData(100 + id, "cast"), CreditData(100 + id, "crew")>>]

NoMovie == [id |-> 0]

\* TMDBClient.get_movie_with_credits: None when the request gave no data
\* (404, retries exhausted) and when the record is adult and adult content
\* is not included.
get_movie_with_credits(id, ok) ==
    IF ~ok \/ id \notin CatalogIds THEN NoMovie
    ELSE IF CatalogAdult(id) /\ ~include_adult THEN NoMovie
    ELSE MovieData(id, 1)

\* The records a caller can hand to the store: results of a fetch, now or
\* before the upstream edit of movie 1.
FetchedRecords ==
    {MovieData(id, 1) : id \in {i \in IDs \cap CatalogIds : ~CatalogAdult(i) \/ include_adult}}
        \cup {MovieData(1, 2)}

(***************************************************************************)
(* The relational store.                                                   *)
(***************************************************************************)
EmptyTable == [i \in {} |-> 0]

EmptyDb ==
    [movies          |-> EmptyTable,
     credits         |-> [i \in IDs |-> <<>>],
     genres          |-> [i \in IDs |-> {}],
     people          |-> {},
     movies_pending  |-> EmptyTable,
     credits_pending |-> [i \in IDs |-> <<>>],
     genres_pending  |-> [i \in IDs |-> {}],
     people_pending  |-> {}]

MoviesT(pending)  == IF pending THEN "movies_pending" ELSE "movies"
CreditsT(pending) == IF pending THEN "credits_pending" ELSE "credits"
GenresT(pending)  == IF pending THEN "genres_pending" ELSE "genres"
PeopleT(pending)  == IF pending THEN "people_pending" ELSE "people"

PutRow(tbl, id, row) == [i \in (DOMAIN tbl) \cup {id} |-> IF i = id THEN row ELSE tbl[i]]
DelRow(tbl, id) == [i \in (DOMAIN tbl) \ {id} |-> tbl[i]]

RangeOf(s) == {s[i] : i \in DOMAIN s}

RECURSIVE SeqOfSet(_)
SeqOfSet(S) ==
    IF S = {} THEN <<>>
    ELSE LET x == CHOOSE y \in S : TRUE IN <<x>> \o SeqOfSet(S \ {x})

\* MovieData.to_dict: the columns of the movies row (adult, genres and
\* credits are not columns).
to_dict(m) == [title |-> m.title, release_date |-> m.release_date]

\* CreditData.to_dict: the columns of a credits row.
credit_to_dict(c) == [person_id |-> c.person_id, credit_type |-> c.credit_type]

\* MovieData.get_people: the distinct persons of the credits.
get_people(m) == {m.credits[i].person_id : i \in DOMAIN m.credits}

get_all_movie_ids(db) == DOMAIN db.movies
get_pending_movie_ids(db) == DOMAIN db.movies_pending
movie_exists(db, id) == id \in DOMAIN db.movies
pending_movie_exists(db, id) == id \in DOMAIN db.movies_pending
get_production_count(db) == Cardinality(DOMAIN db.movies)
get_pending_count(db) == Cardinality(DOMAIN db.movies_pending)

SetMax(S) == CHOOSE x \in S : \A y \in S : y <= x

\* SELECT MAX(release_date) FROM <table> WHERE release_date IS NOT NULL
LatestDate(tbl) ==
    LET ds == {tbl[i].release_date : i \in DOMAIN tbl} \ {NoDate}
    IN IF ds = {} THEN NoDate ELSE SetMax(ds)

get_latest_movie_date(db) == LatestDate(db.movies)
get_latest_pending_date(db) == LatestDate(db.movies_pending)

(***************************************************************************)
(* A transaction works on a copy of the committed tables; when a statement *)
(* raises, the connection is closed without commit and the copy is lost.   *)
(***************************************************************************)
Autocommit(committed, tx) == tx

Rollback(committed, tx) == committed

\* PRIMARY KEY (id) of movies and movies_pending: an INSERT of a present
\* id raises IntegrityError.
DuplicateKeyIgnored(tbl, id) == FALSE

DuplicateKey(tbl, id) == id \in DOMAIN tbl

\* The statements of insert_movie / insert_pending_movie, in order; k is
\* the number of statement groups that ran.
InsertSteps(db, m, pending, k) ==
    LET s1 == IF k >= 1
                THEN [db EXCEPT ![MoviesT(pending)] = PutRow(@, m.id, to_dict(m))]
                ELSE db
        s2 == IF k >= 2
                THEN [s1 EXCEPT ![PeopleT(pending)] = @ \cup get_people(m)]
                ELSE s1
        s3 == IF k >= 3
                THEN [s2 EXCEPT ![CreditsT(pending)][m.id] =
                          @ \o [i \in DOMAIN m.credits |-> credit_to_dict(m.credits[i])]]
                ELSE s2
        s4 == IF k >= 4
                THEN [s3 EXCEPT ![GenresT(pending)][m.id] = @ \cup RangeOf(m.genres)]
                ELSE s3
    IN s4

InsertStatements == 4

\* DatabaseManager.insert_movie / insert_pending_movie.  fail = 0: no
\* statement raises; fail = k: statement group k raises an error other than
\* a duplicate key.  A duplicate primary key raises IntegrityError on the
\* first statement.
InsertInto(db, m, pending, fail) ==
    IF DuplicateKey(db[MoviesT(pending)], m.id)
        THEN [db |-> Rollback(db, db), ret |-> FALSE]
    ELSE IF fail # 0
        THEN [db |-> Rollback(db, InsertSteps(db, m, pending, fail - 1)), ret |-> FALSE]
    ELSE [db |-> InsertSteps(db, m, pending, InsertStatements), ret |-> TRUE]

insert_movie(db, m, fail) == InsertInto(db, m, FALSE, fail)

insert_pending_movie(db, m, fail) == InsertInto(db, m, TRUE, fail)

\* DatabaseManager.get_pending_movie
get_pending_movie(db, id) ==
    IF id \notin DOMAIN db.movies_pending THEN NoMovie
    ELSE [id           |-> id,
          title        |-> db.movies_pending[id].title,
          release_date |-> db.movies_pending[id].release_date,
          adult        |-> FALSE,
          genres       |-> SeqOfSet(db.genres_pending[id]),
          credits      |-> db.credits_pending[id]]

\* The statements of delete_pending_movie, in order.
DeleteSteps(db, id, k) ==
    LET s1 == IF k >= 1 THEN [db EXCEPT !.credits_pending[id] = <<>>] ELSE db
        s2 == IF k >= 2 THEN [s1 EXCEPT !.genres_pending[id] = {}] ELSE s1
        s3 == IF k >= 3 THEN [s2 EXCEPT !.movies_pending = DelRow(@, id)] ELSE s2
    IN s3

DeleteStatements == 3

\* delete_pending_movie with a fourth statement that deletes the production
\* row of the ID.
delete_pending_movie_and_production(db, id, fail) ==
    IF fail # 0
        THEN [db |-> Rollback(db, DeleteSteps(db, id, fail - 1)), ret |-> FALSE]
        ELSE [db |-> [DeleteSteps(db, id, DeleteStatements) EXCEPT !.movies = DelRow(@, id)],
              ret |-> TRUE]

\* DatabaseManager.delete_pending_movie
delete_pending_movie(db, id, fail) ==
    IF fail # 0
        THEN [db |-> Rollback(db, DeleteSteps(db, id, fail - 1)), ret |-> FALSE]
        ELSE [db |-> DeleteSteps(db, id, DeleteStatements), ret |-> TRUE]

\* The statements of the promotion transaction of approve_movie, in order.
ApproveSteps(db, movie, id, k) ==
    LET s4 == InsertSteps(db, movie, FALSE, IF k >= InsertStatements THEN InsertStatements ELSE k)
    IN IF k > InsertStatements THEN DeleteSteps(s4, id, k - InsertStatements) ELSE s4

ApproveStatements == InsertStatements + DeleteStatements

approve_movie_insert_ignore(db, id, fail) ==
    LET movie == get_pending_movie(db, id)
    IN IF movie = NoMovie
           THEN [db |-> db, ret |-> FALSE]
       ELSE IF fail # 0
           THEN [db |-> Rollback(db, ApproveSteps(db, movie, id, fail - 1)), ret |-> FALSE]
       ELSE [db |-> ApproveSteps(db, movie, id, ApproveStatements), ret |-> TRUE]

\* DatabaseManager.approve_movie
approve_movie(db, id, fail) ==
    LET movie == get_pending_movie(db, id)
    IN IF movie = NoMovie
           THEN [db |-> db, ret |-> FALSE]
       ELSE IF DuplicateKey(db.movies, id)
           THEN [db |-> Rollback(db, db), ret |-> FALSE]
       ELSE IF fail # 0
           THEN [db |-> Rollback(db, ApproveSteps(db, movie, id, fail - 1)), ret |-> FALSE]
       ELSE [db |-> ApproveSteps(db, movie, id, ApproveStatements), ret |-> TRUE]

\* approve_movies_bulk, the loop; failing are the IDs whose promotion
\* transaction raises.
RECURSIVE ApproveBulkLoop(_, _, _)
ApproveBulkLoop(ids, acc, failing) ==
    IF ids = <<>> THEN acc
    ELSE
      LET movie_id == Head(ids)
          r == approve_movie(acc.db, movie_id,
                             IF movie_id \in failing THEN ApproveStatements ELSE 0)
          next ==
            IF movie_exists(acc.db, movie_id)
                THEN [acc EXCEPT !.failed =
                        Append(@, [movie_id |-> movie_id, error |-> "already_exists"])]
            ELSE IF r.ret
                THEN [acc EXCEPT !.db = r.db, !.approved = Append(@, movie_id)]
            ELSE [acc EXCEPT !.db = r.db,
                             !.failed =
                        Append(@, [movie_id |-> movie_id, error |-> "approval_failed"])]
      IN ApproveBulkLoop(Tail(ids), next, failing)

approve_movies_bulk_first_only(db, movie_ids, failing) ==
    ApproveBulkLoop(SubSeq(movie_ids, 1, IF movie_ids = <<>> THEN 0 ELSE 1),
                    [db |-> db, approved |-> <<>>, failed |-> <<>>], failing)

\* DatabaseManager.approve_movies_bulk
approve_movies_bulk(db, movie_ids, failing) ==
    ApproveBulkLoop(movie_ids, [db |-> db, approved |-> <<>>, failed |-> <<>>], failing)

\* delete_pending_movies_bulk, the loop; failing are the IDs whose delete
\* raises.
RECURSIVE DeleteBulkLoop(_, _, _)
DeleteBulkLoop(ids, acc, failing) ==
    IF ids = <<>> THEN acc
    ELSE
      LET movie_id == Head(ids)
          r == delete_pending_movie(acc.db, movie_id,
                                    IF movie_id \in failing THEN DeleteStatements ELSE 0)
      IN DeleteBulkLoop(Tail(ids),
                        [db |-> r.db,
                         deleted |-> IF r.ret THEN Append(acc.deleted, movie_id)
                                              ELSE acc.deleted],
                        failing)

\* DatabaseManager.delete_pending_movies_bulk
delete_pending_movies_bulk(db, movie_ids, failing) ==
    DeleteBulkLoop(movie_ids, [db |-> db, deleted |-> <<>>], failing)

\* DatabaseManager.approve_all_pending
approve_all_pending(db, failing) ==
    approve_movies_bulk(db, SeqOfSet(get_pending_movie_ids(db)), failing)

\* DatabaseManager.delete_all_pending
delete_all_pending(db, failing) ==
    LET r == delete_pending_movies_bulk(db, SeqOfSet(get_pending_movie_ids(db)), failing)
    IN [db |-> r.db, deleted |-> r.deleted, ret |-> Len(r.deleted)]

(***************************************************************************)
(* Upstream discovery.  The upstream answers a discovery query with pages  *)
(* of PageSize IDs; include_adult=false leaves adult records out.          *)
(***************************************************************************)
PageSize == 2

CatalogPopularity(id) ==
    CASE id = 1 -> 30
      [] id = 2 -> 10
      [] id = 3 -> 20
      [] id = 4 -> 5
      [] id = 5 -> 40
      [] OTHER  -> 10

Min(a, b) == IF a < b THEN a ELSE b

Take(s, n) == SubSeq(s, 1, Min(n, Len(s)))

\* The IDs of S ordered by ascending (key, id).
RECURSIVE SortIdsAsc(_, _)
SortIdsAsc(S, key) ==
    IF S = {} THEN <<>>
    ELSE LET m == CHOOSE x \in S :
                    \A y \in S : key[x] < key[y] \/ (key[x] = key[y] /\ x <= y)
         IN <<m>> \o SortIdsAsc(S \ {m}, key)

ByPopularityDesc == [i \in IDs |-> 0 - CatalogPopularity(i)]

ByReleaseDate == [i \in IDs |-> CatalogDate(i)]

Discoverable == {i \in IDs \cap CatalogIds : ~CatalogAdult(i) /\ CatalogDate(i) # NoDate}

PageOf(s, page) ==
    SubSeq(s, (page - 1) * PageSize + 1, Min(page * PageSize, Len(s)))

TotalPages(s) == (Len(s) + PageSize - 1) \div PageSize

DiscoverPage(s, page, ok) ==
    IF ~ok THEN [ids |-> <<>>, total_pages |-> 0]
    ELSE [ids |-> PageOf(s, page), total_pages |-> Min(TotalPages(s), MAX_PAGES)]

\* TMDBClient.discover_movies_by_year (sort_by popularity.desc)
discover_movies_by_year(year, page, ok) ==
    DiscoverPage(SortIdsAsc({i \in Discoverable : YearOf(CatalogDate(i)) = year},
                            ByPopularityDesc), page, ok)

\* TMDBClient.discover_movies_since_date (sort_by release_date.asc)
discover_movies_since_date(start_date, page, ok) ==
    DiscoverPage(SortIdsAsc({i \in Discoverable : CatalogDate(i) >= start_date},
                            ByReleaseDate), page, ok)

\* TMDBClient.discover_movies_date_range (sort_by release_date.asc)
discover_movies_date_range(start_date, end_date, page, ok) ==
    DiscoverPage(SortIdsAsc({i \in Discoverable :
                                CatalogDate(i) >= start_date /\ CatalogDate(i) <= end_date},
                            ByReleaseDate), page, ok)

\* TMDBClient.get_earliest_movie_year
get_earliest_movie_year(ok) ==
    LET s == SortIdsAsc(Discoverable, ByReleaseDate)
    IN IF ~ok \/ s = <<>> THEN DefaultEarliestYear ELSE YearOf(CatalogDate(s[1]))

(***************************************************************************)
(* Failures of one run: the IDs whose fetch gives no data after the        *)
(* retries (down), the IDs whose store write raises (wf), and whether the  *)
(* discovery requests are answered (disc).                                 *)
(***************************************************************************)
MaxFaults == 1

Faults ==
    {f \in [down : SUBSET IDs, wf : SUBSET IDs, disc : BOOLEAN] :
        Cardinality(f.down) + Cardinality(f.wf) + (IF f.disc THEN 0 ELSE 1) <= MaxFaults}

WriteFail(f, id) == IF id \in f.wf THEN InsertStatements ELSE 0

\* PipelineStats
PipelineStats ==
    [processed |-> 0, inserted |-> 0, updated |-> 0, skipped_existing |-> 0,
     skipped_adult |-> 0, skipped_no_date |-> 0, errors |-> 0]

Bump(acc, field) == [acc EXCEPT !.stats[field] = @ + 1]

NewRun(db, existing) ==
    [db |-> db, stats |-> PipelineStats, existing |-> existing, reqs |-> 0, raised |-> FALSE,
     cands |-> <<>>, start_date |-> NoDate]

(***************************************************************************)
(* The orchestrator (TMDBPipeline).  test_limit = 0 is "not set" (None or  *)
(* 0: the code tests `if test_limit`).                                     *)
(***************************************************************************)

\* _process_year, the collection of the year's IDs: pages 2.. are fetched
\* until the test limit is reached.
RECURSIVE CollectYear(_, _, _, _, _, _)
CollectYear(year, page, stop, acc, test_limit, ok) ==
    IF page >= stop THEN acc
    ELSE IF test_limit # 0 /\ Len(acc.ids) >= test_limit THEN acc
    ELSE CollectYear(year, page + 1, stop,
                     [ids  |-> acc.ids \o discover_movies_by_year(year, page, ok).ids,
                      reqs |-> acc.reqs + 1],
                     test_limit, ok)

\* _process_year, the loop over the collected IDs.
RECURSIVE ProcessYearLoop(_, _, _, _)
ProcessYearLoop(ids, acc, to_pending, f) ==
    IF ids = <<>> THEN acc
    ELSE
      LET movie_id == Head(ids)
          a0 == Bump(acc, "processed")
          movie == get_movie_with_credits(movie_id, movie_id \notin f.down)
          a1 == [a0 EXCEPT !.reqs = @ + 1]
          r == InsertInto(a1.db, movie, to_pending, WriteFail(f, movie_id))
          next ==
            IF movie_id \in a0.existing THEN Bump(a0, "skipped_existing")
            ELSE IF movie = NoMovie THEN Bump(a1, "errors")
            ELSE IF movie.adult THEN Bump(a1, "skipped_adult")
            ELSE IF movie.release_date = NoDate THEN Bump(a1, "skipped_no_date")
            ELSE IF r.ret
                THEN [Bump(a1, "inserted") EXCEPT !.db = r.db,
                                                  !.existing = @ \cup {movie_id}]
                ELSE [Bump(a1, "errors") EXCEPT !.db = r.db]
      IN ProcessYearLoop(Tail(ids), next, to_pending, f)

\* _process_year without the cut of the collected IDs to the test limit.
process_year_whole_pages(year, acc, test_limit, to_pending, f) ==
    LET first == discover_movies_by_year(year, 1, f.disc)
        coll == CollectYear(year, 2, Min(first.total_pages + 1, MAX_PAGES + 1),
                            [ids |-> first.ids, reqs |-> acc.reqs + 1],
                            test_limit, f.disc)
    IN ProcessYearLoop(coll.ids,
                       [acc EXCEPT !.stats = PipelineStats, !.reqs = coll.reqs,
                                   !.cands = @ \o coll.ids],
                       to_pending, f)

\* TMDBPipeline._process_year: the run state after the year, started from
\* the store and existing_ids of acc with empty year statistics.
process_year(year, acc, test_limit, to_pending, f) ==
    LET first == discover_movies_by_year(year, 1, f.disc)
        coll == CollectYear(year, 2, Min(first.total_pages + 1, MAX_PAGES + 1),
                            [ids |-> first.ids, reqs |-> acc.reqs + 1],
                            test_limit, f.disc)
        all_ids == IF test_limit # 0 THEN Take(coll.ids, test_limit) ELSE coll.ids
    IN ProcessYearLoop(all_ids,
                       [acc EXCEPT !.stats = PipelineStats, !.reqs = coll.reqs,
                                   !.cands = @ \o all_ids],
                       to_pending, f)

\* The sum of the year statistics without the errors line.
AddStatsWithoutErrors(s, t) ==
    [k \in DOMAIN s |-> IF k = "errors" THEN s[k] ELSE s[k] + t[k]]

\* initial_ingest, stats.<counter> += year_stats.<counter>
AddStats(s, t) == [k \in DOMAIN s |-> s[k] + t[k]]

\* initial_ingest, the loop over the years start_year, start_year-1, ...,
\* end_year.
RECURSIVE IngestYears(_, _, _, _, _)
IngestYears(year, end_year, acc, test_limit, f) ==
    IF year < end_year THEN acc
    ELSE IF test_limit # 0 /\ acc.stats.inserted >= test_limit THEN acc
    ELSE LET y == process_year(year, acc,
                               IF test_limit # 0 THEN test_limit - acc.stats.inserted ELSE 0,
                               FALSE, f)
         IN IngestYears(year - 1, end_year,
                        [y EXCEPT !.stats = AddStats(acc.stats, y.stats)],
                        test_limit, f)

\* initial_ingest, the guardrail: production holds data and force is off.
GuardOff(db, force) == FALSE

GuardRaises(db, force) == ~force /\ get_production_count(db) > 0

\* TMDBPipeline.initial_ingest (start_year and end_year not given)
initial_ingest(db, test_limit, force, f) ==
    IF GuardRaises(db, force)
        THEN [NewRun(db, {}) EXCEPT !.raised = TRUE]
    ELSE LET end_year == get_earliest_movie_year(f.disc)
             start == [NewRun(db, get_all_movie_ids(db)) EXCEPT !.reqs = 1]
         IN IngestYears(YearOf(Today), end_year, start, test_limit, f)

\* add_new_movies, the discovery loop.
RECURSIVE DiscoverSince(_, _, _, _, _)
DiscoverSince(start_date, page, acc, test_limit, ok) ==
    LET d == discover_movies_since_date(start_date, page, ok)
        a == [ids |-> acc.ids \o d.ids, reqs |-> acc.reqs + 1]
    IN IF page >= d.total_pages THEN a
       ELSE IF test_limit # 0 /\ Len(a.ids) >= test_limit THEN a
       ELSE DiscoverSince(start_date, page + 1, a, test_limit, ok)

AddNewInsertProduction(db, movie, fail) == insert_movie(db, movie, fail)

\* add_new_movies, the insert: self.db.insert_pending_movie(movie)
AddNewInsert(db, movie, fail) == insert_pending_movie(db, movie, fail)

\* add_new_movies, the loop over the new IDs.
RECURSIVE AddNewLoop(_, _, _)
AddNewLoop(ids, acc, f) ==
    IF ids = <<>> THEN acc
    ELSE
      LET movie_id == Head(ids)
          a1 == [Bump(acc, "processed") EXCEPT !.reqs = @ + 1]
          movie == get_movie_with_credits(movie_id, movie_id \notin f.down)
          r == AddNewInsert(a1.db, movie, WriteFail(f, movie_id))
          next ==
            IF movie = NoMovie THEN Bump(a1, "errors")
            ELSE IF movie.adult THEN Bump(a1, "skipped_adult")
            ELSE IF movie_exists(a1.db, movie_id) \/ pending_movie_exists(a1.db, movie_id)
                THEN Bump(a1, "skipped_existing")
            ELSE IF r.ret
                THEN [Bump(a1, "inserted") EXCEPT !.db = r.db]
                ELSE [Bump(a1, "errors") EXCEPT !.db = r.db]
      IN AddNewLoop(Tail(ids), next, f)

\* The body of add_new_movies.
AddNewRun(db, test_limit, f) ==
    LET pending_date == get_latest_pending_date(db)
        latest_date == IF pending_date = NoDate THEN get_latest_movie_date(db)
                                                ELSE pending_date
        start_date == latest_date + 1
        existing_ids == get_all_movie_ids(db) \cup get_pending_movie_ids(db)
        found == DiscoverSince(start_date, 1, [ids |-> <<>>, reqs |-> 0], test_limit, f.disc)
        fresh == SelectSeq(found.ids, LAMBDA mid : mid \notin existing_ids)
        new_ids == IF test_limit # 0 THEN Take(fresh, test_limit) ELSE fresh
    IN IF latest_date = NoDate THEN NewRun(db, {})
       ELSE IF start_date > Today THEN NewRun(db, {})
       ELSE AddNewLoop(new_ids, [NewRun(db, existing_ids) EXCEPT !.reqs = found.reqs,
                                                                 !.cands = new_ids,
                                                                 !.start_date = start_date],
                       f)

add_new_movies_one_record(db, test_limit, f) == AddNewRun(db, 1, f)

\* TMDBPipeline.add_new_movies
add_new_movies(db, test_limit, f) == AddNewRun(db, test_limit, f)

(***************************************************************************)
(* The export snapshot: a sequence of lines.  A line is a JSON object      *)
(* ("ok"), a JSON object without id ("no_id"), text that is not JSON       *)
(* ("bad_json") or JSON that is not an object ("not_object").              *)
(***************************************************************************)
ExportLine(id, adult, popularity) ==
    [kind |-> "ok", id |-> id, adult |-> adult, popularity |-> popularity]

ExportMovie(id, popularity) == [id |-> id, popularity |-> popularity]

\* TMDBExportHandler.parse_export: the records yielded, and whether the
\* generator raised (an error other than JSONDecodeError and KeyError
\* leaves the loop).
RECURSIVE parse_export(_)
parse_export(lines) ==
    IF lines = <<>> THEN [movies |-> <<>>, raised |-> FALSE]
    ELSE LET l == Head(lines)
             rest == parse_export(Tail(lines))
         IN IF l.kind = "bad_json" THEN rest
            ELSE IF l.kind = "not_object" THEN [movies |-> <<>>, raised |-> TRUE]
            ELSE IF l.adult THEN rest
            ELSE IF l.kind = "no_id" THEN rest
            ELSE [rest EXCEPT !.movies = <<ExportMovie(l.id, l.popularity)>> \o @]

\* TMDBExportHandler.get_all_movie_ids
export_get_all_movie_ids(lines) == {m.id : m \in RangeOf(parse_export(lines).movies)}

\* sorted(movies, key=popularity, reverse=True): stable.
RECURSIVE InsertDesc(_, _)
InsertDesc(x, s) ==
    IF s = <<>> THEN <<x>>
    ELSE IF Head(s).popularity >= x.popularity THEN <<Head(s)>> \o InsertDesc(x, Tail(s))
    ELSE <<x>> \o s

RECURSIVE SortDesc(_, _)
SortDesc(s, acc) ==
    IF s = <<>> THEN acc ELSE SortDesc(Tail(s), InsertDesc(Head(s), acc))

\* TMDBExportHandler.get_movies_by_popularity
get_movies_by_popularity(lines, min_popularity) ==
    SortDesc(SelectSeq(parse_export(lines).movies,
                       LAMBDA m : m.popularity >= min_popularity), <<>>)

(***************************************************************************)
(* The verifier.                                                           *)
(***************************************************************************)
\* verify_against_export, all_db_ids with include_pending = True
OnlyProductionIds(production_ids, pending_ids) == production_ids

AllDbIds(production_ids, pending_ids) == production_ids \cup pending_ids

\* DatabaseVerifier.verify_against_export (include_pending = True)
verify_against_export(db, lines) ==
    LET export_ids == export_get_all_movie_ids(lines)
        production_ids == get_all_movie_ids(db)
        pending_ids == get_pending_movie_ids(db)
        all_db_ids == AllDbIds(production_ids, pending_ids)
    IN [export_count   |-> Cardinality(export_ids),
        database_count |-> Cardinality(production_ids),
        pending_count  |-> Cardinality(pending_ids),
        missing_ids    |-> SeqOfSet(export_ids \ all_db_ids),
        extra_ids      |-> SeqOfSet(all_db_ids \ export_ids),
        raised         |-> parse_export(lines).raised]

total_in_db(vr) == vr.database_count + vr.pending_count
missing_count(vr) == Len(vr.missing_ids)
extra_count(vr) == Len(vr.extra_ids)
is_complete(vr) == missing_count(vr) = 0

coverage_percent_of_total(vr) ==
    IF vr.export_count = 0 THEN <<0, 1>>
    ELSE <<total_in_db(vr) * 100, vr.export_count>>

\* VerificationResult.coverage_percent, as the fraction <<numerator,
\* denominator>> of the float it computes.
coverage_percent(vr) ==
    IF vr.export_count = 0 THEN <<0, 1>>
    ELSE <<(total_in_db(vr) - extra_count(vr)) * 100, vr.export_count>>

PercentIs(frac, n) == frac[1] = n * frac[2]

\* DatabaseVerifier.get_missing_by_popularity
get_missing_by_popularity(vr, lines, min_popularity, limit) ==
    IF vr.missing_ids = <<>> THEN <<>>
    ELSE LET movies == get_movies_by_popularity(lines, min_popularity)
             missing_set == RangeOf(vr.missing_ids)
             prioritized == SelectSeq(movies, LAMBDA m : m.id \in missing_set)
         IN IF limit # 0 THEN Take(prioritized, limit) ELSE prioritized

(***************************************************************************)
(* The strategies that share the per-ID loop fetch -> filter -> insert.    *)
(***************************************************************************)
\* The loop of bulk_ingest_from_export, backfill_missing and
\* reingest_year_monthly over the candidate IDs.
RECURSIVE IngestLoop(_, _, _, _)
IngestLoop(ids, acc, to_pending, f) ==
    IF ids = <<>> THEN acc
    ELSE
      LET movie_id == Head(ids)
          a1 == [Bump(acc, "processed") EXCEPT !.reqs = @ + 1]
          movie == get_movie_with_credits(movie_id, movie_id \notin f.down)
          r == InsertInto(a1.db, movie, to_pending, WriteFail(f, movie_id))
          next ==
            IF movie = NoMovie THEN Bump(a1, "errors")
            ELSE IF movie.adult THEN Bump(a1, "skipped_adult")
            ELSE IF movie.release_date = NoDate THEN Bump(a1, "skipped_no_date")
            ELSE IF r.ret
                THEN [Bump(a1, "inserted") EXCEPT !.db = r.db]
                ELSE [Bump(a1, "errors") EXCEPT !.db = r.db]
      IN IngestLoop(Tail(ids), next, to_pending, f)

ExistingFor(db, to_pending) ==
    IF to_pending THEN get_all_movie_ids(db) \cup get_pending_movie_ids(db)
                  ELSE get_all_movie_ids(db)

IdsOf(movies) == [i \in DOMAIN movies |-> movies[i].id]

\* TMDBPipeline.bulk_ingest_from_export
bulk_ingest_from_export(db, lines, min_popularity, test_limit, to_pending, f) ==
    LET movies == get_movies_by_popularity(lines, min_popularity)
        existing_ids == ExistingFor(db, to_pending)
        new_movies == SelectSeq(movies, LAMBDA m : m.id \notin existing_ids)
        limited == IF test_limit # 0 THEN Take(new_movies, test_limit) ELSE new_movies
    IN IF parse_export(lines).raised
           THEN [NewRun(db, {}) EXCEPT !.raised = TRUE]
           ELSE IngestLoop(IdsOf(limited),
                           [NewRun(db, existing_ids) EXCEPT !.cands = IdsOf(limited)],
                           to_pending, f)

\* TMDBPipeline.backfill_missing (verification not given: it runs
\* verify_database first)
backfill_missing(db, lines, min_popularity, test_limit, to_pending, f) ==
    LET verification == verify_against_export(db, lines)
        missing_with_popularity ==
            get_missing_by_popularity(verification, lines, min_popularity, test_limit)
    IN IF verification.raised THEN [NewRun(db, {}) EXCEPT !.raised = TRUE]
       ELSE IF is_complete(verification) THEN NewRun(db, {})
       ELSE IF missing_with_popularity = <<>> THEN NewRun(db, {})
       ELSE IngestLoop(IdsOf(missing_with_popularity),
                       [NewRun(db, {}) EXCEPT !.cands = IdsOf(missing_with_popularity)],
                       to_pending, f)

\* A year has MonthsPerYear months; month m of a year is one day.
MonthsPerYear == 2

MonthDate(year, month) == (year - 1) * MonthsPerYear + month

\* TMDBClient.get_all_movie_ids_for_month
RECURSIVE get_all_movie_ids_for_month(_, _, _, _, _)
get_all_movie_ids_for_month(year, month, page, acc, ok) ==
    LET d == discover_movies_date_range(MonthDate(year, month), MonthDate(year, month),
                                        page, ok)
        a == [ids |-> acc.ids \o d.ids, reqs |-> acc.reqs + 1]
    IN IF d.ids = <<>> THEN [acc EXCEPT !.reqs = @ + 1]
       ELSE IF page >= d.total_pages \/ page >= MAX_PAGES THEN a
       ELSE get_all_movie_ids_for_month(year, month, page + 1, a, ok)

\* TMDBClient.get_all_movie_ids_for_year_monthly, before list(all_ids)
RECURSIVE get_all_movie_ids_for_year_monthly(_, _, _, _)
get_all_movie_ids_for_year_monthly(year, month, acc, ok) ==
    IF month > MonthsPerYear THEN acc
    ELSE LET m == get_all_movie_ids_for_month(year, month, 1,
                                              [ids |-> <<>>, reqs |-> acc.reqs], ok)
         IN get_all_movie_ids_for_year_monthly(year, month + 1,
                [ids |-> acc.ids \cup RangeOf(m.ids), reqs |-> m.reqs], ok)

\* The lists that list(a_set) can give.
Orders(S) == {s \in [1..Cardinality(S) -> S] : RangeOf(s) = S}

\* TMDBPipeline.reingest_year_monthly; all_ids is the list made of the
\* year's ID set.
reingest_year_monthly(db, year, all_ids, reqs, test_limit, to_pending, f) ==
    LET existing_ids == ExistingFor(db, to_pending)
        fresh == SelectSeq(all_ids, LAMBDA mid : mid \notin existing_ids)
        new_ids == IF test_limit # 0 THEN Take(fresh, test_limit) ELSE fresh
    IN IngestLoop(new_ids, [NewRun(db, existing_ids) EXCEPT !.reqs = reqs, !.cands = new_ids],
                  to_pending, f)

(***************************************************************************)
(* Refresh of changed records.                                             *)
(***************************************************************************)
\* The statements of update_movie, in order.
UpdateSteps(db, m, k) ==
    LET s1 == IF k >= 1 /\ m.id \in DOMAIN db.movies
                THEN [db EXCEPT !.movies[m.id] = to_dict(m)] ELSE db
        s2 == IF k >= 2 THEN [s1 EXCEPT !.credits[m.id] = <<>>] ELSE s1
        s3 == IF k >= 3 THEN [s2 EXCEPT !.genres[m.id] = {}] ELSE s2
        s4 == IF k >= 4 THEN [s3 EXCEPT !.people = @ \cup get_people(m)] ELSE s3
        s5 == IF k >= 5
                THEN [s4 EXCEPT !.credits[m.id] =
                          @ \o [i \in DOMAIN m.credits |-> credit_to_dict(m.credits[i])]]
                ELSE s4
        s6 == IF k >= 6 THEN [s5 EXCEPT !.genres[m.id] = @ \cup RangeOf(m.genres)] ELSE s5
    IN s6

UpdateStatements == 6

\* DatabaseManager.update_movie
update_movie(db, m, fail) ==
    IF fail # 0
        THEN [db |-> Rollback(db, UpdateSteps(db, m, fail - 1)), ret |-> FALSE]
        ELSE [db |-> UpdateSteps(db, m, UpdateStatements), ret |-> TRUE]

\* differential_update, the loop over the IDs to update.
RECURSIVE UpdateLoop(_, _, _)
UpdateLoop(ids, acc, f) ==
    IF ids = <<>> THEN acc
    ELSE
      LET movie_id == Head(ids)
          a1 == [Bump(acc, "processed") EXCEPT !.reqs = @ + 1]
          movie == get_movie_with_credits(movie_id, movie_id \notin f.down)
          r == update_movie(a1.db, movie,
                            IF movie_id \in f.wf THEN UpdateStatements ELSE 0)
          next ==
            IF movie = NoMovie THEN Bump(a1, "errors")
            ELSE IF r.ret THEN [Bump(a1, "updated") EXCEPT !.db = r.db]
            ELSE [Bump(a1, "errors") EXCEPT !.db = r.db]
      IN UpdateLoop(Tail(ids), next, f)

ToUpdateAllChanged(changed_ids, our_movie_ids) == changed_ids

\* to_update = changed_ids & our_movie_ids
ToUpdate(changed_ids, our_movie_ids) == changed_ids \cap our_movie_ids

\* TMDBPipeline.differential_update; changed is the upstream change feed
\* of the window and pick the IDs kept by set(list(to_update)[:test_limit]).
differential_update(db, changed, pick, test_limit, f) ==
    LET our_movie_ids == get_all_movie_ids(db)
        changed_ids == IF f.disc THEN changed ELSE {}
        to_update == ToUpdate(changed_ids, our_movie_ids)
        limited == IF test_limit # 0 THEN pick \cap to_update ELSE to_update
    IN IF our_movie_ids = {} THEN NewRun(db, {})
       ELSE UpdateLoop(SeqOfSet(limited),
                       [NewRun(db, {}) EXCEPT !.reqs = 1, !.cands = SeqOfSet(limited)], f)

\* The subsets that set(list(to_update)[:test_limit]) can give.
Picks(to_update, test_limit) ==
    {p \in SUBSET to_update : Cardinality(p) = Min(test_limit, Cardinality(to_update))}

ChangeFeeds == {{}, {1}, IDs}

(***************************************************************************)
(* Upstream client.  One _request call is a sequence of session.get calls, *)
(* each of which the retry adapter mounted on the session may repeat.  The *)
(* outcome of one HTTP attempt is a status (s200, s404, s429, s429d for a  *)
(* 429 whose Retry-After is a date, s500 for a status of the adapter's     *)
(* force list, s501 for another 5xx, s400 for any other status) or a       *)
(* failure (timeout, connection, other).  Delays count half seconds.       *)
(***************************************************************************)
max_retries == 8

AdapterTotal == 5

Outcomes ==
    {"s200", "s404", "s429", "s429d", "s500", "s501", "s400", "timeout", "connection", "other"}

\* Retry(total=5, status_forcelist=[429, 500, 502, 503, 504]) on GET
AdapterRetries(outcome) == outcome \in {"s429", "s429d", "s500", "timeout", "connection"}

\* TMDBClient._adaptive_delay: min(n * 0.5, 5.0) seconds
adaptive_delay(consecutive_errors) == Min(consecutive_errors, 10)

NoClient ==
    [pc |-> "idle", retry_count |-> 0, adapter |-> 0, gets |-> 0, http |-> 0,
     backoffs |-> 0, delay |-> 0, consecutive_errors |-> 0, result |-> "none",
     status |-> "none"]

ExhaustedLate(_retry_count) == _retry_count >= max_retries + 1

\* if _retry_count >= max_retries
Exhausted(_retry_count) == _retry_count >= max_retries

Finish(c, result) == [c EXCEPT !.pc = "done", !.result = result]

\* The head of _request up to session.get: the budget test, the limiter
\* and the adaptive delay.
Enter(c, _retry_count) ==
    IF Exhausted(_retry_count)
    THEN Finish([c EXCEPT !.retry_count = _retry_count], "None")
    ELSE [c EXCEPT !.pc = "get", !.retry_count = _retry_count, !.adapter = 0,
                   !.gets = @ + 1, !.delay = adaptive_delay(c.consecutive_errors)]

\* time.sleep(backoff); return self._request(endpoint, params, _retry_count + 1)
Retry(c) ==
    Enter([c EXCEPT !.consecutive_errors = @ + 1, !.backoffs = @ + 1], c.retry_count + 1)

DecrementCounter(n) == IF n > 0 THEN n - 1 ELSE 0

NotFoundRetried(c) == Retry(c)

\* if response.status_code == 404: return None
NotFound(c) == Finish(c, "None")

\* What _request does with the response or the exception of session.get.
Handle(c, outcome) ==
    CASE outcome = "s200" ->
             Finish([c EXCEPT !.consecutive_errors = DecrementCounter(@)], "json")
      [] outcome = "s404" -> NotFound(c)
      [] outcome = "s429d" -> Finish(c, "raised")
      [] outcome \in {"s429", "s500", "s501", "timeout", "connection"} -> Retry(c)
      [] outcome = "s400" -> Finish(c, "None")
      [] OTHER ->
             IF c.retry_count < max_retries - 1
             THEN Retry(c)
             ELSE Finish([c EXCEPT !.consecutive_errors = @ + 1], "None")

\* One HTTP attempt of session.get: the adapter repeats it or hands the
\* outcome to _request.
Attempt(c, outcome) ==
    LET sent == [c EXCEPT !.http = @ + 1, !.status = outcome]
    IN IF AdapterRetries(outcome) /\ c.adapter < AdapterTotal
       THEN [sent EXCEPT !.adapter = @ + 1]
       ELSE Handle(sent, outcome)

\* self._request(endpoint, params)
request(c) ==
    Enter([c EXCEPT !.gets = 0, !.http = 0, !.backoffs = 0, !.result = "none",
                    !.status = "none"], 0)

(***************************************************************************)
(* Rate limiter.  Time is counted in ticks, TicksPerSecond of them to the  *)
(* second.  timestamps is the deque of the limiter, holder the caller that *)
(* holds its lock (0 for none), wake the time before which the sleeping    *)
(* holder does not return and granted the times of the latest grants, one  *)
(* more than the ceiling.                                                  *)
(***************************************************************************)
TicksPerSecond == 3

MaxRate == 2

MaxCallers == 2

MaxClock == 7

Callers == 1..MaxCallers

\* RateLimiter.__init__
RateLimiter(requests_per_second) ==
    [requests_per_second |-> requests_per_second, timestamps |-> <<>>, holder |-> 0,
     wake |-> 0, slept |-> FALSE, clock |-> 0, granted |-> <<>>]

NoLimiter == RateLimiter(1)

\* while self.timestamps and now - self.timestamps[0] > 1.0: popleft()
RECURSIVE CleanOld(_, _)
CleanOld(timestamps, now) ==
    IF timestamps # <<>> /\ now - timestamps[1] > TicksPerSecond
    THEN CleanOld(Tail(timestamps), now)
    ELSE timestamps

\* deque(maxlen=n).append
AppendMax(q, x, maxlen) ==
    IF Len(q) >= maxlen THEN Append(Tail(q), x) ELSE Append(q, x)

no_sleep(timestamps, now) == 0

\* sleep_time = 1.0 - (now - self.timestamps[0])
sleep_time(timestamps, now) == TicksPerSecond - (now - timestamps[1])

\* self.timestamps.append(now), leaving the lock
Grant(l, timestamps, now, slept) ==
    [l EXCEPT !.timestamps = AppendMax(timestamps, now, l.requests_per_second),
              !.holder = 0, !.wake = 0, !.slept = slept,
              !.granted = AppendMax(l.granted, now, l.requests_per_second + 1)]

\* RateLimiter.acquire up to time.sleep, or to its end when it does not
\* sleep
acquire(l, caller) ==
    LET now == l.clock
        cleaned == CleanOld(l.timestamps, now)
    IN IF Len(cleaned) >= l.requests_per_second /\ sleep_time(cleaned, now) > 0
       THEN [l EXCEPT !.timestamps = cleaned, !.holder = caller,
                      !.wake = now + sleep_time(cleaned, now)]
       ELSE Grant(l, cleaned, now, FALSE)

\* RateLimiter.acquire from the return of time.sleep
acquire_after_sleep(l) ==
    LET now == l.clock
    IN Grant(l, CleanOld(l.timestamps, now), now, TRUE)

(***************************************************************************)
(* State.  db is the committed content of the store and export the export  *)
(* snapshot of the day.  last describes the recorded call (name,           *)
(* arguments, result), prev the recorded call before it, pre the store     *)
(* before the recorded call and env the upstream and store failures of the *)
(* recorded run.  vr is the result of the last verification.  appr is the  *)
(* position of a promotion that runs statement by statement and obs what a *)
(* concurrent reader saw last.  client is the upstream client during and   *)
(* after one _request call and limiter a rate limiter with its clock.      *)
(* quick is the position and the statistics of an approve_all_quick call.  *)
(***************************************************************************)
(* The review surface: the staged records in review order.                 *)
(***************************************************************************)
\* DatabaseManager.get_pending_movies_ordered (oldest_first = True): the IDs
\* of the first limit staged records by release date.
get_pending_movies_ordered(db, limit) ==
    Take(SortIdsAsc(get_pending_movie_ids(db),
                    [i \in IDs |-> IF i \in DOMAIN db.movies_pending
                                     THEN db.movies_pending[i].release_date ELSE NoDate]),
         limit)

(***************************************************************************)
VARIABLES db, export, last, prev, pre, env, vr, appr, obs, client, limiter, quick

vars == <<db, export, last, prev, pre, env, vr, appr, obs, client, limiter, quick>>

NoFaults == [down |-> {}, wf |-> {}, disc |-> TRUE]

StoreCall(op, id, ret, fail) ==
    [op |-> op, id |-> id, ret |-> ret, fail |-> fail, raised |-> FALSE, test_limit |-> 0,
     force |-> FALSE, to_pending |-> FALSE, stats |-> PipelineStats, reqs |-> 0,
     ids |-> <<>>, approved |-> <<>>, failed |-> <<>>, cands |-> <<>>, start_date |-> NoDate]

RunCall(op, run, test_limit, force, to_pending) ==
    [op |-> op, id |-> 0, ret |-> ~run.raised, fail |-> 0, raised |-> run.raised,
     test_limit |-> test_limit, force |-> force, to_pending |-> to_pending,
     stats |-> run.stats, reqs |-> run.reqs,
     ids |-> <<>>, approved |-> <<>>, failed |-> <<>>, cands |-> run.cands,
     start_date |-> run.start_date]

NoCall == StoreCall("init", 0, TRUE, 0)

NoResult ==
    [export_count |-> 0, database_count |-> 0, pending_count |-> 0,
     missing_ids |-> <<>>, extra_ids |-> <<>>, raised |-> FALSE]

Idle == [pc |-> "idle", id |-> 0, movie |-> NoMovie, k |-> 0, tx |-> EmptyDb, ret |-> FALSE]

\* ApprovalStats of an approve_all_quick call not started; seen counts the
\* reviews of each ID.
NoQuick ==
    [pc |-> "idle", batch_size |-> 0, batch |-> <<>>, reviewed |-> 0, approved |-> 0,
     skipped |-> 0, remaining_pending |-> 0, seen |-> [i \in IDs |-> 0]]

NoObs == [id |-> 0, staged |-> FALSE, production |-> FALSE, during |-> FALSE]

TestLimits == 0..MaxTestLimit

\* The export of the day: one line per upstream ID.
DailyExport == [i \in IDs |-> ExportLine(i, CatalogAdult(i), CatalogPopularity(i))]

MinPopularities == {0, 20}

Years == 1..YearOf(Today)

\* The failures drawn for a run: any of Faults for the recorded run, a
\* failing fetch at most for a run of a sequence.
FaultsFor(rec) ==
    IF rec THEN Faults
           ELSE {f \in Faults : f.disc /\ f.wf = {} /\ Cardinality(f.down) <= 1}

\* A call either is the recorded one (rec) or leaves the record alone.
Record(rec, call, f) ==
    IF rec THEN /\ last' = call
                /\ prev' = last
                /\ pre' = db
                /\ env' = f
           ELSE UNCHANGED <<last, prev, pre, env>>

Init ==
    /\ db = EmptyDb
    /\ export = DailyExport
    /\ last = NoCall
    /\ prev = NoCall
    /\ pre = EmptyDb
    /\ env = NoFaults
    /\ vr = NoResult
    /\ appr = Idle
    /\ obs = NoObs
    /\ client = NoClient
    /\ limiter = NoLimiter
    /\ quick = NoQuick

InsertMovie(rec) ==
    \E m \in FetchedRecords, fail \in 0..InsertStatements :
        LET r == insert_movie(db, m, fail)
        IN /\ db' = r.db
           /\ Record(rec, StoreCall("insert_movie", m.id, r.ret, fail), NoFaults)
           /\ UNCHANGED <<export, vr, appr, obs, client, limiter, quick>>

InsertPendingMovie(rec) ==
    \E m \in FetchedRecords, fail \in 0..InsertStatements :
        LET r == insert_pending_movie(db, m, fail)
        IN /\ db' = r.db
           /\ Record(rec, StoreCall("insert_pending_movie", m.id, r.ret, fail), NoFaults)
           /\ UNCHANGED <<export, vr, appr, obs, client, limiter, quick>>

DeletePendingMovie(rec) ==
    \E id \in IDs, fail \in 0..DeleteStatements :
        LET r == delete_pending_movie(db, id, fail)
        IN /\ db' = r.db
           /\ Record(rec, StoreCall("delete_pending_movie", id, r.ret, fail), NoFaults)
           /\ UNCHANGED <<export, vr, appr, obs, client, limiter, quick>>

ApproveMovie(rec) ==
    \E id \in IDs, fail \in 0..ApproveStatements :
        LET r == approve_movie(db, id, fail)
        IN /\ db' = r.db
           /\ Record(rec, StoreCall("approve_movie", id, r.ret, fail), NoFaults)
           /\ UNCHANGED <<export, vr, appr, obs, client, limiter, quick>>

\* update_movie is called by differential_update only, with the record of
\* an ID read from production.
UpdateMovie(rec) ==
    \E m \in FetchedRecords, fail \in 0..UpdateStatements :
        /\ m.id \in get_all_movie_ids(db)
        /\ LET r == update_movie(db, m, fail)
           IN /\ db' = r.db
              /\ Record(rec, StoreCall("update_movie", m.id, r.ret, fail), NoFaults)
              /\ UNCHANGED <<export, vr, appr, obs, client, limiter, quick>>

InitialIngest(rec) ==
    \E test_limit \in TestLimits, force \in BOOLEAN, f \in FaultsFor(rec) :
        LET run == initial_ingest(db, test_limit, force, f)
        IN /\ db' = run.db
           /\ Record(rec, RunCall("initial_ingest", run, test_limit, force, FALSE), f)
           /\ UNCHANGED <<export, vr, appr, obs, client, limiter, quick>>

AddNewMovies(rec) ==
    \E test_limit \in TestLimits, f \in FaultsFor(rec) :
        LET run == add_new_movies(db, test_limit, f)
        IN /\ db' = run.db
           /\ Record(rec, RunCall("add_new_movies", run, test_limit, FALSE, TRUE), f)
           /\ UNCHANGED <<export, vr, appr, obs, client, limiter, quick>>

DifferentialUpdate(rec) ==
    \E changed \in ChangeFeeds, test_limit \in TestLimits, f \in FaultsFor(rec) :
        \E pick \in Picks(changed \cap get_all_movie_ids(db), test_limit) :
            LET run == differential_update(db, changed, pick, test_limit, f)
            IN /\ db' = run.db
               /\ Record(rec, [RunCall("differential_update", run, test_limit, FALSE, FALSE)
                                    EXCEPT !.ids = SeqOfSet(changed)], f)
               /\ UNCHANGED <<export, vr, appr, obs, client, limiter, quick>>

BulkIngestFromExport(rec) ==
    \E min_popularity \in MinPopularities, test_limit \in TestLimits,
       to_pending \in BOOLEAN, f \in FaultsFor(rec) :
        LET run == bulk_ingest_from_export(db, export, min_popularity, test_limit,
                                           to_pending, f)
        IN /\ db' = run.db
           /\ Record(rec, RunCall("bulk_ingest_from_export", run, test_limit, FALSE,
                                  to_pending), f)
           /\ UNCHANGED <<export, vr, appr, obs, client, limiter, quick>>

BackfillMissing(rec) ==
    \E min_popularity \in MinPopularities, test_limit \in TestLimits,
       to_pending \in BOOLEAN, f \in FaultsFor(rec) :
        LET run == backfill_missing(db, export, min_popularity, test_limit, to_pending, f)
        IN /\ db' = run.db
           /\ Record(rec, RunCall("backfill_missing", run, test_limit, FALSE, to_pending), f)
           /\ UNCHANGED <<export, vr, appr, obs, client, limiter, quick>>

ReingestYearMonthly(rec) ==
    \E year \in Years, test_limit \in TestLimits, to_pending \in BOOLEAN, f \in FaultsFor(rec) :
        LET found == get_all_movie_ids_for_year_monthly(year, 1,
                                                        [ids |-> {}, reqs |-> 0], f.disc)
        IN \E all_ids \in Orders(found.ids) :
            LET run == reingest_year_monthly(db, year, all_ids, found.reqs, test_limit,
                                             to_pending, f)
            IN /\ db' = run.db
               /\ Record(rec, RunCall("reingest_year_monthly", run, test_limit, FALSE,
                                      to_pending), f)
               /\ UNCHANGED <<export, vr, appr, obs, client, limiter, quick>>

\* Any sequence of store operations and strategy runs.
Next ==
    \/ InsertMovie(FALSE)
    \/ InsertPendingMovie(FALSE)
    \/ DeletePendingMovie(FALSE)
    \/ ApproveMovie(FALSE)
    \/ UpdateMovie(FALSE)
    \/ InitialIngest(FALSE)
    \/ AddNewMovies(FALSE)
    \/ DifferentialUpdate(FALSE)
    \/ BulkIngestFromExport(FALSE)
    \/ BackfillMissing(FALSE)
    \/ ReingestYearMonthly(FALSE)

Spec == Init /\ [][Next]_vars

ProductionIds == get_all_movie_ids(db)
StagedIds == get_pending_movie_ids(db)

\* C1: after any sequence of store operations and strategy runs no ID is
\* both in the staged set and in the production set.
C1_StagedProductionDisjoint == ProductionIds \cap StagedIds = {}

(***************************************************************************)
(* One recorded call of a store operation, made in any store that store    *)
(* operations can build.                                                   *)
(***************************************************************************)
Setup == last.op = "init"

NextStoreCall ==
    \/ Setup /\ InsertMovie(FALSE)
    \/ Setup /\ InsertPendingMovie(FALSE)
    \/ Setup /\ DeletePendingMovie(FALSE)
    \/ Setup /\ ApproveMovie(FALSE)
    \/ Setup /\ UpdateMovie(FALSE)
    \/ Setup /\ InsertMovie(TRUE)
    \/ Setup /\ InsertPendingMovie(TRUE)
    \/ Setup /\ DeletePendingMovie(TRUE)
    \/ Setup /\ ApproveMovie(TRUE)
    \/ Setup /\ UpdateMovie(TRUE)

SpecStoreCall == Init /\ [][NextStoreCall]_vars

\* The rows of a credits table for one movie, whatever their order.
SameRows(s, t) ==
    \A r \in RangeOf(s) \cup RangeOf(t) :
        Cardinality({i \in DOMAIN s : s[i] = r}) = Cardinality({i \in DOMAIN t : t[i] = r})

\* The tables of d without the rows of movie id.
Others(d, id) ==
    [movies          |-> DelRow(d.movies, id),
     credits         |-> [d.credits EXCEPT ![id] = <<>>],
     genres          |-> [d.genres EXCEPT ![id] = {}],
     movies_pending  |-> DelRow(d.movies_pending, id),
     credits_pending |-> [d.credits_pending EXCEPT ![id] = <<>>],
     genres_pending  |-> [d.genres_pending EXCEPT ![id] = {}]]

Promoted(before, after, id) ==
    /\ id \notin DOMAIN after.movies_pending
    /\ after.credits_pending[id] = <<>>
    /\ after.genres_pending[id] = {}
    /\ id \in DOMAIN after.movies
    /\ after.movies[id] = before.movies_pending[id]
    /\ SameRows(after.credits[id], before.credits_pending[id])
    /\ after.genres[id] = before.genres_pending[id]
    /\ Others(after, id) = Others(before, id)

C3_ApproveGuard ==
    (/\ last.op = "approve_movie"
     /\ \/ last.id \notin DOMAIN pre.movies_pending
        \/ last.id \in DOMAIN pre.movies) =>
        ~last.ret /\ db = pre

\* staged {1, 2, 3}, production {1}, approve_movie(1)
C3_Witness ==
    /\ last.op = "approve_movie"
    /\ last.id = 1
    /\ last.fail = 0
    /\ DOMAIN pre.movies_pending = {1, 2, 3}
    /\ DOMAIN pre.movies = {1}
    /\ ~last.ret

\* C4: insert_pending_movie returns false and leaves the staged set
\* unchanged when the record's ID is already in production.
C4_NoRestaging ==
    (last.op = "insert_pending_movie" /\ last.id \in DOMAIN pre.movies) =>
        ~last.ret /\ DOMAIN db.movies_pending = DOMAIN pre.movies_pending

\* C5: insert_movie with an ID already in production and
\* insert_pending_movie with an ID already staged return false and leave
\* both stores as they were.
C5_NoDoubleInsert ==
    (\/ last.op = "insert_movie" /\ last.id \in DOMAIN pre.movies
     \/ last.op = "insert_pending_movie" /\ last.id \in DOMAIN pre.movies_pending) =>
        ~last.ret /\ ~last.raised /\ db = pre

C5_Witness ==
    /\ last.op = "insert_pending_movie"
    /\ last.id \in DOMAIN pre.movies_pending
    /\ last.id \notin DOMAIN pre.movies
    /\ last.fail = 0
    /\ pre.movies_pending[last.id].title = 2
    /\ ~last.ret

(***************************************************************************)
(* One verification of a store against an export snapshot.                 *)
(***************************************************************************)
VerifyIds == 1..MaxVerifyId

ById == [i \in IDs |-> i]

\* The export with one line per ID of ids, the IDs of adult flagged adult.
ExportOf(ids, adult) ==
    LET order == SortIdsAsc(ids, ById)
    IN [i \in DOMAIN order |->
            ExportLine(order[i], order[i] \in adult, CatalogPopularity(order[i]))]

\* The store after production inserts of the records P and staged inserts
\* of the records S.
RECURSIVE StoreOf(_, _)
StoreOf(P, S) ==
    IF P # {}
        THEN LET id == CHOOSE i \in P : TRUE
             IN insert_movie(StoreOf(P \ {id}, S), MovieData(id, 1), 0).db
    ELSE IF S # {}
        THEN LET id == CHOOSE i \in S : TRUE
             IN insert_pending_movie(StoreOf(P, S \ {id}), MovieData(id, 1), 0).db
    ELSE EmptyDb

Storable == {m.id : m \in FetchedRecords}

ScenarioExport == ExportOf({1, 2, 3, 4, 5}, {5})

ScenarioStore == StoreOf({1, 2}, {3})

InitVerify ==
    /\ \/ /\ \E ids \in SUBSET VerifyIds : \E adult \in SUBSET ids :
                export = ExportOf(ids, adult)
          /\ \E P \in SUBSET (VerifyIds \cap Storable), S \in SUBSET (VerifyIds \cap Storable) :
                db = StoreOf(P, S)
       \/ export = ScenarioExport /\ db = ScenarioStore
    /\ last = NoCall
    /\ prev = NoCall
    /\ pre = EmptyDb
    /\ env = NoFaults
    /\ vr = NoResult
    /\ appr = Idle
    /\ obs = NoObs
    /\ client = NoClient
    /\ limiter = NoLimiter
    /\ quick = NoQuick

\* TMDBPipeline.verify_database
VerifyDatabase ==
    LET result == verify_against_export(db, export)
    IN /\ Setup
       /\ vr' = result
       /\ Record(TRUE, StoreCall("verify_database", 0, ~result.raised, 0), NoFaults)
       /\ UNCHANGED <<db, export, appr, obs, client, limiter, quick>>

NextVerify == VerifyDatabase

SpecVerify == InitVerify /\ [][NextVerify]_vars

\* The non-adult IDs of the export snapshot.
NonAdultIds(lines) == {lines[i].id : i \in {j \in DOMAIN lines : ~lines[j].adult}}

Verified == last.op = "verify_database"

\* C8: verify_against_export returns missing_ids = E - (P + S) and
\* extra_ids = (P + S) - E for the non-adult export IDs E, production IDs P
\* and staged IDs S; the export {1..5} with 5 adult, P = {1, 2}, S = {3}
\* gives missing {4}, extra {} and coverage 75%.
C8_VerifyDiff ==
    Verified =>
        LET E == NonAdultIds(export)
            D == ProductionIds \cup StagedIds
        IN /\ RangeOf(vr.missing_ids) = E \ D
           /\ RangeOf(vr.extra_ids) = D \ E
           /\ Len(vr.missing_ids) = Cardinality(E \ D)
           /\ Len(vr.extra_ids) = Cardinality(D \ E)
           /\ (export = ScenarioExport /\ db = ScenarioStore) =>
                 /\ RangeOf(vr.missing_ids) = {4}
                 /\ vr.extra_ids = <<>>
                 /\ PercentIs(coverage_percent(vr), 75)

C8_Witness ==
    /\ Verified
    /\ export = ScenarioExport
    /\ db = ScenarioStore
    /\ vr.missing_ids = <<4>>

\* C9 as stated: coverage_percent is 100 if and only if missing_ids and
\* extra_ids are both empty.
C9_Original ==
    Verified =>
        (PercentIs(coverage_percent(vr), 100) <=>
            (vr.missing_ids = <<>> /\ vr.extra_ids = <<>>))

\* C9 as the code has it: coverage_percent is 100 if and only if the export
\* has a non-adult ID and as many IDs are missing as are in both stores
\* (none missing, when the stores are disjoint); extra_ids plays no part.
C9_Coverage ==
    Verified =>
        (PercentIs(coverage_percent(vr), 100) <=>
            /\ NonAdultIds(export) # {}
            /\ Len(vr.missing_ids) = Cardinality(ProductionIds \cap StagedIds))

C9_Witness ==
    /\ Verified
    /\ PercentIs(coverage_percent(vr), 100)
    /\ vr.extra_ids # <<>>
    /\ vr.missing_ids = <<>>
    /\ ProductionIds \cap StagedIds = {}

(***************************************************************************)
(* One recorded strategy run, made in any store that store operations can  *)
(* build.                                                                  *)
(***************************************************************************)
NextRunCall ==
    \/ Setup /\ InsertMovie(FALSE)
    \/ Setup /\ InsertPendingMovie(FALSE)
    \/ Setup /\ DeletePendingMovie(FALSE)
    \/ Setup /\ ApproveMovie(FALSE)
    \/ Setup /\ UpdateMovie(FALSE)
    \/ Setup /\ InitialIngest(TRUE)

SpecRunCall == Init /\ [][NextRunCall]_vars

\* C10: initial_ingest with force off and production non-empty raises
\* before any upstream request and any write; with force on or production
\* empty it proceeds.
C10_Guardrail ==
    last.op = "initial_ingest" =>
        IF ~last.force /\ DOMAIN pre.movies # {}
            THEN last.raised /\ last.reqs = 0 /\ db = pre
            ELSE ~last.raised /\ last.reqs >= 1

C10_Witness ==
    /\ last.op = "initial_ingest"
    /\ ~last.force
    /\ DOMAIN pre.movies # {}
    /\ DOMAIN pre.movies_pending # {}
    /\ last.raised

(***************************************************************************)
(* add_new_movies run twice in a row: same arguments, same upstream, same  *)
(* failing requests and writes, nothing else in between.                   *)
(***************************************************************************)
AddNewMoviesAgain ==
    /\ last.op = "add_new_movies"
    /\ prev.op = "init"
    /\ LET run == add_new_movies(db, last.test_limit, env)
       IN /\ db' = run.db
          /\ Record(TRUE, RunCall("add_new_movies", run, last.test_limit, FALSE, TRUE), env)
          /\ UNCHANGED <<export, vr, appr, obs, client, limiter, quick>>

NextRerun ==
    \/ Setup /\ InsertMovie(FALSE)
    \/ Setup /\ InsertPendingMovie(FALSE)
    \/ Setup /\ DeletePendingMovie(FALSE)
    \/ Setup /\ ApproveMovie(FALSE)
    \/ Setup /\ UpdateMovie(FALSE)
    \/ Setup /\ AddNewMovies(TRUE)
    \/ AddNewMoviesAgain

SpecRerun == Init /\ [][NextRerun]_vars

SecondRun == last.op = "add_new_movies" /\ prev.op = "add_new_movies"

SecondRunInsertsNothing ==
    /\ last.stats.inserted = 0
    /\ get_pending_movie_ids(db) = get_pending_movie_ids(pre)
    /\ get_all_movie_ids(db) = get_all_movie_ids(pre)

\* C7 as stated: the second of two add_new_movies runs in a row with the
\* same arguments inserts nothing.
C7_Original == SecondRun => SecondRunInsertsNothing

\* C7 as the code has it: the second run inserts nothing when no test
\* limit is set (and what failed in the first run fails again).
C7_RerunInsertsNothing == (SecondRun /\ last.test_limit = 0) => SecondRunInsertsNothing

C7_Witness ==
    /\ SecondRun
    /\ last.test_limit = 0
    /\ prev.stats.inserted >= 2
    /\ last.stats.inserted = 0

(***************************************************************************)
(* approve_movie statement by statement, with a concurrent reader.  The    *)
(* reader sees the committed tables (InnoDB reads committed rows only).    *)
(***************************************************************************)
ReaderView(committed, tx) == committed

ApproveBegin ==
    \E id \in IDs :
        /\ appr.pc = "idle"
        /\ LET movie == get_pending_movie(db, id)
           IN appr' = IF movie = NoMovie
                        THEN [Idle EXCEPT !.pc = "done", !.id = id]
                        ELSE [Idle EXCEPT !.pc = "tx", !.id = id, !.movie = movie, !.tx = db]
        /\ UNCHANGED <<db, export, last, prev, pre, env, vr, obs, client, limiter, quick>>

ApproveStatement ==
    /\ appr.pc = "tx"
    /\ appr.k < ApproveStatements
    /\ \E raises \in BOOLEAN :
        appr' = IF raises \/ (appr.k = 0 /\ DuplicateKey(appr.tx.movies, appr.id))
                    THEN [appr EXCEPT !.pc = "done", !.ret = FALSE,
                                      !.tx = Rollback(db, appr.tx)]
                    ELSE [appr EXCEPT !.k = @ + 1,
                                      !.tx = ApproveSteps(db, appr.movie, appr.id, appr.k + 1)]
    /\ UNCHANGED <<db, export, last, prev, pre, env, vr, obs, client, limiter, quick>>

ApproveCommit ==
    /\ appr.pc = "tx"
    /\ appr.k = ApproveStatements
    /\ db' = appr.tx
    /\ appr' = [appr EXCEPT !.pc = "done", !.ret = TRUE]
    /\ UNCHANGED <<export, last, prev, pre, env, vr, obs, client, limiter, quick>>

\* A reader looks the promoted ID up in both stores.
Read ==
    /\ appr.pc = "tx"
    /\ LET view == ReaderView(db, appr.tx)
       IN obs' = [id         |-> appr.id,
                  staged     |-> pending_movie_exists(view, appr.id),
                  production |-> movie_exists(view, appr.id),
                  during     |-> TRUE]
    /\ UNCHANGED <<db, export, last, prev, pre, env, vr, appr, client, limiter, quick>>

NextConc ==
    \/ appr.pc = "idle" /\ InsertMovie(FALSE)
    \/ appr.pc = "idle" /\ InsertPendingMovie(FALSE)
    \/ ApproveBegin
    \/ ApproveStatement
    \/ ApproveCommit
    \/ Read

SpecConc == Init /\ [][NextConc]_vars

\* C6: a reader concurrent with approve_movie(id) never sees id in neither
\* store and never sees it in both.
C6_ReaderSeesOneStore == obs.during => (obs.staged # obs.production)

(***************************************************************************)
(* One recorded approve_movies_bulk call, made in any store that inserts   *)
(* can build, with any list of at most MaxBulk IDs.                        *)
(***************************************************************************)
MaxBulk == 2

BulkInputs == UNION {[1..n -> IDs] : n \in 0..MaxBulk}

ApproveMoviesBulk ==
    \E movie_ids \in BulkInputs :
        \E failing \in {F \in SUBSET RangeOf(movie_ids) : Cardinality(F) <= MaxFaults} :
            LET r == approve_movies_bulk(db, movie_ids, failing)
            IN /\ db' = r.db
               /\ Record(TRUE, [StoreCall("approve_movies_bulk", 0, TRUE, 0) EXCEPT
                                   !.ids = movie_ids, !.approved = r.approved,
                                   !.failed = r.failed],
                         [NoFaults EXCEPT !.wf = failing])
               /\ UNCHANGED <<export, vr, appr, obs, client, limiter, quick>>

NextBulkCall ==
    \/ Setup /\ InsertMovie(FALSE)
    \/ Setup /\ InsertPendingMovie(FALSE)
    \/ Setup /\ ApproveMoviesBulk

SpecBulkCall == Init /\ [][NextBulkCall]_vars

BulkCalled == last.op = "approve_movies_bulk"

FailedIds == {last.failed[i].movie_id : i \in DOMAIN last.failed}

\* An entry of the input is promoted when the ID is staged and not in
\* production before the call (or before the entry, for a repeated ID) and
\* its transaction does not raise.
Promotable(id) ==
    /\ id \in DOMAIN pre.movies_pending
    /\ id \notin DOMAIN pre.movies
    /\ id \notin env.wf

\* C11 as stated: approved and failed partition the input IDs, an ID is in
\* approved exactly when its promotion succeeded, and every failed entry
\* carries a reason.
C11_Original ==
    BulkCalled =>
        /\ RangeOf(last.approved) \cup FailedIds = RangeOf(last.ids)
        /\ RangeOf(last.approved) \cap FailedIds = {}
        /\ \A id \in RangeOf(last.ids) : id \in RangeOf(last.approved) <=> Promotable(id)
        /\ \A id \in RangeOf(last.approved) :
                id \in DOMAIN db.movies /\ id \notin DOMAIN db.movies_pending
        /\ \A i \in DOMAIN last.failed :
                last.failed[i].error \in {"already_exists", "approval_failed"}

\* C11 as the code has it: every entry of the input gives one entry of
\* approved or of failed; an ID is in approved exactly when its promotion
\* succeeded; an ID is in failed as well as in approved only when it is
\* given more than once; every failed entry carries a reason.
C11_BulkPartition ==
    BulkCalled =>
        /\ Len(last.approved) + Len(last.failed) = Len(last.ids)
        /\ RangeOf(last.approved) \cup FailedIds = RangeOf(last.ids)
        /\ \A id \in RangeOf(last.approved) \cap FailedIds :
                Cardinality({i \in DOMAIN last.ids : last.ids[i] = id}) > 1
        /\ \A id \in RangeOf(last.ids) : id \in RangeOf(last.approved) <=> Promotable(id)
        /\ \A id \in RangeOf(last.approved) :
                /\ id \in DOMAIN db.movies /\ id \notin DOMAIN db.movies_pending
                /\ Cardinality({i \in DOMAIN last.approved : last.approved[i] = id}) = 1
        /\ \A i \in DOMAIN last.failed :
                last.failed[i].error \in {"already_exists", "approval_failed"}
        /\ \A id \in IDs \ RangeOf(last.approved) :
                /\ id \in DOMAIN db.movies <=> id \in DOMAIN pre.movies
                /\ id \in DOMAIN db.movies_pending <=> id \in DOMAIN pre.movies_pending

\* the first promotion fails, the second entry is still promoted
C11_Witness ==
    /\ BulkCalled
    /\ Len(last.ids) = 2
    /\ last.ids[1] \in env.wf
    /\ last.ids[1] \in DOMAIN pre.movies_pending
    /\ last.ids[1] \notin DOMAIN pre.movies
    /\ last.approved = <<last.ids[2]>>
    /\ last.failed = <<[movie_id |-> last.ids[1], error |-> "approval_failed"]>>


(***************************************************************************)
(* Requests of the upstream client, one HTTP attempt at a time.            *)
(***************************************************************************)
MaxConsecutiveErrors == 3

\* A caller of the client starts a request.
Request ==
    /\ client.pc \in {"idle", "done"}
    /\ client.consecutive_errors <= MaxConsecutiveErrors
    /\ client' = request(client)
    /\ UNCHANGED <<db, export, last, prev, pre, env, vr, appr, obs, limiter, quick>>

\* The upstream answers one HTTP attempt, or the attempt fails.
Http ==
    /\ client.pc = "get"
    /\ \E outcome \in Outcomes : client' = Attempt(client, outcome)
    /\ UNCHANGED <<db, export, last, prev, pre, env, vr, appr, obs, limiter, quick>>

NextClient == Request \/ Http

SpecClient == Init /\ [][NextClient]_vars

\* session.get has a timeout, so that every HTTP attempt comes to an end.
SpecClientLive == SpecClient /\ WF_vars(Http)

\* C12 as stated: one _request call makes at most 8 HTTP attempts.
C12_Original == client.http <= max_retries

\* C12: one _request call makes at most 8 session.get calls, each of which
\* the retry adapter of the session repeats at most 5 times, so at most 48
\* HTTP attempts; every failure that _request retries (429, 5xx, timeout,
\* connection failure) takes one of the 8; the call always comes to an end,
\* and with the 8 used up it returns None.
C12_AttemptBudget ==
    /\ [](/\ client.gets <= max_retries
          /\ client.http <= max_retries * (AdapterTotal + 1)
          /\ client.backoffs = client.retry_count
          /\ client.pc = "get" => client.gets = client.retry_count + 1
          /\ client.retry_count >= max_retries =>
                 client.pc = "done" /\ client.result = "None")
    /\ (client.pc = "get" ~> client.pc = "done")

C12_Witness ==
    /\ client.pc = "done"
    /\ client.retry_count = max_retries
    /\ client.result = "None"
    /\ client.http > max_retries


\* C13: an HTTP attempt answered 404 ends the request at once with None,
\* with no further session.get call and no backoff sleep, wherever in the
\* retries it arrives, and get_movie_with_credits gives no record for it.
C13_NotFoundImmediate ==
    [][(client.pc = "get" /\ client'.status = "s404") =>
           /\ client'.pc = "done"
           /\ client'.result = "None"
           /\ client'.http = client.http + 1
           /\ client'.gets = client.gets
           /\ client'.backoffs = client.backoffs
           /\ client'.retry_count = client.retry_count
           /\ client'.consecutive_errors = client.consecutive_errors
           /\ \A id \in IDs :
                  get_movie_with_credits(id, client'.result = "json") = NoMovie]_vars

C13_Witness ==
    /\ client.status = "s404"
    /\ client.pc = "done"
    /\ client.result = "None"
    /\ client.retry_count > 0
    /\ client.adapter > 0


\* C14: after a request that ended with a 2xx answer the counter of
\* consecutive errors is zero, and so is the adaptive delay that the next
\* request sleeps.
C14_CounterReset ==
    (client.pc = "done" /\ client.result = "json") =>
        /\ client.consecutive_errors = 0
        /\ adaptive_delay(client.consecutive_errors) = 0


(***************************************************************************)
(* Callers of one rate limiter.  A caller that finds the lock taken waits  *)
(* for it; time passes while the holder of the lock sleeps.                *)
(***************************************************************************)
InitLimiter ==
    /\ db = EmptyDb
    /\ export = DailyExport
    /\ last = NoCall
    /\ prev = NoCall
    /\ pre = EmptyDb
    /\ env = NoFaults
    /\ vr = NoResult
    /\ appr = Idle
    /\ obs = NoObs
    /\ client = NoClient
    /\ \E requests_per_second \in 1..MaxRate : limiter = RateLimiter(requests_per_second)
    /\ quick = NoQuick

Tick ==
    /\ limiter.clock < MaxClock
    /\ limiter' = [limiter EXCEPT !.clock = @ + 1]
    /\ UNCHANGED <<db, export, last, prev, pre, env, vr, appr, obs, client, quick>>

\* with self.lock: ... up to time.sleep or to the end
Acquire ==
    /\ limiter.holder = 0
    /\ \E caller \in Callers : limiter' = acquire(limiter, caller)
    /\ UNCHANGED <<db, export, last, prev, pre, env, vr, appr, obs, client, quick>>

\* time.sleep returns, not before the time asked for
WakeUp ==
    /\ limiter.holder # 0
    /\ limiter.clock >= limiter.wake
    /\ limiter' = acquire_after_sleep(limiter)
    /\ UNCHANGED <<db, export, last, prev, pre, env, vr, appr, obs, client, quick>>

NextLimiter == Tick \/ Acquire \/ WakeUp

SpecLimiter == InitLimiter /\ [][NextLimiter]_vars

\* The grants that lie within the last second.
RecentGrants ==
    {i \in DOMAIN limiter.granted : limiter.clock - limiter.granted[i] < TicksPerSecond}

\* C15: a limiter of ceiling N grants at most N acquire calls in any window
\* shorter than a second (the grant that follows N grants is a second or
\* more after the first of them); a caller that arrives with N grants in
\* the last second is not granted but sleeps, holding the lock, until the
\* oldest of them is a second old; nothing is granted to another caller
\* while the lock is held.
C15_RateCeiling ==
    /\ [](/\ \A i, j \in DOMAIN limiter.granted :
                 j - i >= limiter.requests_per_second =>
                     limiter.granted[j] - limiter.granted[i] >= TicksPerSecond
          /\ limiter.holder # 0 =>
                 /\ Len(limiter.timestamps) = limiter.requests_per_second
                 /\ limiter.wake = limiter.timestamps[1] + TicksPerSecond)
    /\ [][/\ (limiter.holder = 0 /\ limiter'.clock = limiter.clock
                 /\ Cardinality(RecentGrants) >= limiter.requests_per_second) =>
                 (limiter'.holder # 0 /\ limiter'.granted = limiter.granted)
          /\ (limiter.holder # 0 /\ limiter'.granted # limiter.granted) =>
                 /\ limiter'.holder = 0
                 /\ limiter'.slept
                 /\ limiter.clock >= limiter.wake]_vars

C15_Witness ==
    /\ limiter.requests_per_second = 2
    /\ limiter.slept
    /\ Len(limiter.granted) = 3
    /\ limiter.granted[3] - limiter.granted[1] = TicksPerSecond


(***************************************************************************)
(* One recorded run of any strategy on a store built by inserts, with the  *)
(* export of the day, an export that gives one ID on two lines or an       *)
(* export with a line that is JSON but not an object.                      *)
(***************************************************************************)
RepeatedExport == DailyExport \o <<DailyExport[1]>>

BrokenExport ==
    <<[kind |-> "not_object", id |-> 0, adult |-> FALSE, popularity |-> 0]>> \o DailyExport

StrategyExports == {DailyExport, RepeatedExport, BrokenExport}

MaxStoredId == 1

\* The stores that production and staged inserts of the first records build.
StrategyStores ==
    {StoreOf(P, S) : P \in SUBSET (1..MaxStoredId \cap Storable),
                     S \in SUBSET (1..MaxStoredId \cap Storable)}

InitStrategy ==
    /\ db \in StrategyStores
    /\ export \in StrategyExports
    /\ last = NoCall
    /\ prev = NoCall
    /\ pre = EmptyDb
    /\ env = NoFaults
    /\ vr = NoResult
    /\ appr = Idle
    /\ obs = NoObs
    /\ client = NoClient
    /\ limiter = NoLimiter
    /\ quick = NoQuick

NextStrategyCall ==
    \/ Setup /\ InitialIngest(TRUE)
    \/ Setup /\ AddNewMovies(TRUE)
    \/ Setup /\ DifferentialUpdate(TRUE)
    \/ Setup /\ BulkIngestFromExport(TRUE)
    \/ Setup /\ BackfillMissing(TRUE)
    \/ Setup /\ ReingestYearMonthly(TRUE)

SpecStrategyCall == InitStrategy /\ [][NextStrategyCall]_vars

StrategyOps ==
    {"initial_ingest", "add_new_movies", "differential_update",
     "bulk_ingest_from_export", "backfill_missing", "reingest_year_monthly"}

StrategyRan == last.op \in StrategyOps


\* The candidates of the recorded run whose fetch failed: the upstream was
\* down for the ID or does not know it.
FailedFetches ==
    {i \in DOMAIN last.cands :
        /\ last.cands[i] \in env.down \/ last.cands[i] \notin CatalogIds
        /\ \/ last.op = "differential_update"
           \/ last.cands[i] \notin DOMAIN pre.movies \cup DOMAIN pre.movies_pending}

\* C16: in a run of any strategy every candidate whose fetch fails adds
\* one to errors and the other candidates are still processed (processed
\* is the number of candidates); the only run that is aborted is the full
\* crawl stopped by its guardrail.
C16_FailedFetchCounted ==
    StrategyRan =>
        /\ last.raised =>
               /\ last.op = "initial_ingest"
               /\ ~last.force
               /\ DOMAIN pre.movies # {}
        /\ ~last.raised =>
               /\ last.stats.processed = Len(last.cands)
               /\ last.stats.errors >= Cardinality(FailedFetches)


\* The candidates of the recorded run for which the upstream gave no
\* record, or whose write to the store failed.
FailedCandidates ==
    {i \in DOMAIN last.cands :
        \/ get_movie_with_credits(last.cands[i], last.cands[i] \notin env.down) = NoMovie
        \/ last.cands[i] \in env.wf}

\* The candidates of the recorded run that come a second time, after the
\* run has inserted their record: their insert finds the ID in the target.
RepeatedCandidates ==
    {i \in DOMAIN last.cands :
        /\ last.op # "differential_update"
        /\ i \notin FailedCandidates
        /\ CatalogDate(last.cands[i]) # NoDate
        /\ \E j \in 1..(i - 1) : last.cands[j] = last.cands[i]}

\* C17: in a run of any strategy an insert that returns false because the
\* ID is already in the target set is counted under skipped_existing and
\* not under errors.
C17_DuplicateIsSkip ==
    (StrategyRan /\ ~last.raised) =>
        /\ last.stats.skipped_existing >= Cardinality(RepeatedCandidates)
        /\ last.stats.errors <= Cardinality(FailedCandidates)


\* The production tables of a store.
ProductionOf(d) ==
    [movies |-> d.movies, credits |-> d.credits, genres |-> d.genres, people |-> d.people]

NewlyStaged == DOMAIN db.movies_pending \ DOMAIN pre.movies_pending

\* C18: add_new_movies leaves every production table as it was; what it
\* inserts goes to staged, and only for IDs that were in neither
\* production nor staged.
C18_StagedOnly ==
    last.op = "add_new_movies" =>
        /\ ProductionOf(db) = ProductionOf(pre)
        /\ NewlyStaged \cap (DOMAIN pre.movies \cup DOMAIN pre.movies_pending) = {}
        /\ NewlyStaged \cap DOMAIN db.movies = {}
        /\ last.stats.inserted = Cardinality(NewlyStaged)

C18_Witness ==
    /\ last.op = "add_new_movies"
    /\ DOMAIN pre.movies # {}
    /\ DOMAIN pre.movies_pending # {}
    /\ last.stats.inserted >= 1


\* The later of the latest staged and the latest production release date
\* before the recorded run (NoDate is before every date).
LaterLatestDate == SetMax({get_latest_pending_date(pre), get_latest_movie_date(pre)})

\* C19: add_new_movies discovers from the day after the later of the
\* latest staged and the latest production release date; when that day is
\* after today or neither store has a dated record it makes no request and
\* inserts nothing.
C19_LowerBound ==
    last.op = "add_new_movies" =>
        IF LaterLatestDate = NoDate \/ LaterLatestDate + 1 > Today
            THEN last.reqs = 0 /\ last.stats.inserted = 0 /\ db = pre
            ELSE last.start_date = LaterLatestDate + 1


(***************************************************************************)
(* One recorded differential_update on a store built by inserts; last.ids  *)
(* is the change feed of the upstream.                                     *)
(***************************************************************************)
NextRefreshCall ==
    \/ Setup /\ InsertMovie(FALSE)
    \/ Setup /\ InsertPendingMovie(FALSE)
    \/ Setup /\ DifferentialUpdate(TRUE)

SpecRefreshCall == Init /\ [][NextRefreshCall]_vars

\* The rows of production movie id.
ProductionRows(d, id) ==
    [movie |-> d.movies[id], credits |-> d.credits[id], genres |-> d.genres[id]]

\* The rows of the record that a fetch of id gives now.
FetchedRows(id) ==
    LET m == MovieData(id, 1)
    IN [movie   |-> to_dict(m),
        credits |-> [i \in DOMAIN m.credits |-> credit_to_dict(m.credits[i])],
        genres  |-> RangeOf(m.genres)]

StagedOf(d) ==
    [movies |-> d.movies_pending, credits |-> d.credits_pending,
     genres |-> d.genres_pending, people |-> d.people_pending]

Refetched == RangeOf(last.cands)

RefetchFailed ==
    {id \in Refetched : get_movie_with_credits(id, id \notin env.down) = NoMovie}

\* C20: differential_update re-fetches only IDs that are in the change
\* feed and in production at its start (all of them when no test limit is
\* set and the feed was read), replaces the rows of those it fetched,
\* leaves the ID sets of production and staged as they were, and leaves
\* the rows of a record whose re-fetch failed as they were, counting it as
\* an error.
C20_RefreshOnlyChanged ==
    last.op = "differential_update" =>
        /\ Refetched \subseteq RangeOf(last.ids) \cap DOMAIN pre.movies
        /\ (last.test_limit = 0 /\ env.disc) =>
               Refetched = RangeOf(last.ids) \cap DOMAIN pre.movies
        /\ DOMAIN db.movies = DOMAIN pre.movies
        /\ StagedOf(db) = StagedOf(pre)
        /\ \A id \in DOMAIN pre.movies :
               IF id \in Refetched \ (RefetchFailed \cup env.wf)
                   THEN ProductionRows(db, id) = FetchedRows(id)
                   ELSE ProductionRows(db, id) = ProductionRows(pre, id)
        /\ last.stats.updated = Cardinality(Refetched \ (RefetchFailed \cup env.wf))
        /\ last.stats.errors = Cardinality(Refetched \cap (RefetchFailed \cup env.wf))

C20_Witness ==
    /\ last.op = "differential_update"
    /\ last.stats.updated >= 1
    /\ RefetchFailed # {}
    /\ 1 \in Refetched
    /\ ProductionRows(pre, 1) # FetchedRows(1)
    /\ ProductionRows(db, 1) = FetchedRows(1)
    /\ DOMAIN pre.movies_pending # {}

(***************************************************************************)
(* The bulk operations of the review surface, and any sequence of store    *)
(* operations, bulk operations, refreshes and strategy runs.               *)
(***************************************************************************)
\* A bulk rejection: the IDs it went through, those whose delete returned
\* true and what the call returned.
BulkDeleteCall(op, ids, deleted, ret) ==
    [op |-> op, ids |-> ids, deleted |-> deleted, ret |-> ret]

FailingSets(S) == {F \in SUBSET S : Cardinality(F) <= MaxFaults}

DeletePendingMoviesBulk(rec) ==
    \E movie_ids \in BulkInputs :
        \E failing \in FailingSets(RangeOf(movie_ids)) :
            LET r == delete_pending_movies_bulk(db, movie_ids, failing)
            IN /\ db' = r.db
               /\ Record(rec, BulkDeleteCall("delete_pending_movies_bulk", movie_ids,
                                              r.deleted, r.deleted),
                         [NoFaults EXCEPT !.wf = failing])
               /\ UNCHANGED <<export, vr, appr, obs, client, limiter, quick>>

ApproveAllPending(rec) ==
    \E failing \in FailingSets(get_pending_movie_ids(db)) :
        LET r == approve_all_pending(db, failing)
        IN /\ db' = r.db
           /\ Record(rec, [StoreCall("approve_all_pending", 0, TRUE, 0) EXCEPT
                               !.approved = r.approved, !.failed = r.failed],
                     [NoFaults EXCEPT !.wf = failing])
           /\ UNCHANGED <<export, vr, appr, obs, client, limiter, quick>>

DeleteAllPending(rec) ==
    \E failing \in FailingSets(get_pending_movie_ids(db)) :
        LET r == delete_all_pending(db, failing)
        IN /\ db' = r.db
           /\ Record(rec, BulkDeleteCall("delete_all_pending",
                                          SeqOfSet(get_pending_movie_ids(db)),
                                          r.deleted, r.ret),
                     [NoFaults EXCEPT !.wf = failing])
           /\ UNCHANGED <<export, vr, appr, obs, client, limiter, quick>>

NextLifecycle ==
    \/ InsertMovie(FALSE)
    \/ InsertPendingMovie(FALSE)
    \/ DeletePendingMovie(FALSE)
    \/ ApproveMovie(FALSE)
    \/ UpdateMovie(FALSE)
    \/ DeletePendingMoviesBulk(FALSE)
    \/ ApproveAllPending(FALSE)
    \/ DeleteAllPending(FALSE)
    \/ InitialIngest(FALSE)
    \/ AddNewMovies(FALSE)
    \/ DifferentialUpdate(FALSE)
    \/ BulkIngestFromExport(FALSE)
    \/ BackfillMissing(FALSE)
    \/ ReingestYearMonthly(FALSE)

SpecLifecycle == Init /\ [][NextLifecycle]_vars

\* C21: no step of any sequence of inserts, promotions, staged rejections
\* (single or bulk), refreshes and strategy runs removes an ID from the
\* production set: the production ID set only grows.
C21_ProductionGrows == [][ProductionIds \subseteq get_all_movie_ids(db')]_vars

\* Production holds records while a staged record was rejected: the person
\* of the rejected record is still in people_pending, the record is in
\* neither store.
C21_Witness ==
    /\ ProductionIds # {}
    /\ StagedIds # {}
    /\ \E id \in IDs : /\ 100 + id \in db.people_pending
                       /\ id \notin ProductionIds \cup StagedIds

(***************************************************************************)
(* One consumer of the export stream on any snapshot of at most MaxLines   *)
(* lines.                                                                  *)
(***************************************************************************)
MaxLines == 2

\* The lines a snapshot can hold: objects with an id, objects without an
\* id, text that is not JSON and JSON that is not an object.
ExportLines ==
    {ExportLine(id, adult, popularity) :
        id \in {1, 2}, adult \in BOOLEAN, popularity \in {10, 30}}
    \cup {[kind |-> "no_id", id |-> 0, adult |-> adult, popularity |-> 10] :
            adult \in BOOLEAN}
    \cup {[kind |-> k, id |-> 0, adult |-> FALSE, popularity |-> 0] :
            k \in {"bad_json", "not_object"}}

Snapshots == UNION {[1..n -> ExportLines] : n \in 0..MaxLines}

InitExport ==
    /\ export \in Snapshots
    /\ db = EmptyDb
    /\ last = NoCall
    /\ prev = NoCall
    /\ pre = EmptyDb
    /\ env = NoFaults
    /\ vr = NoResult
    /\ appr = Idle
    /\ obs = NoObs
    /\ client = NoClient
    /\ limiter = NoLimiter
    /\ quick = NoQuick

\* A consumer's call: the records parse_export yielded to it, what the
\* consumer returned and whether the stream raised.
ExportCall(op, stream, ret) ==
    [op |-> op, yielded |-> stream.movies, raised |-> stream.raised,
     ret |-> IF stream.raised THEN <<>> ELSE ret]

\* TMDBExportHandler.get_all_movie_ids
GetAllMovieIds ==
    /\ Setup
    /\ last' = ExportCall("get_all_movie_ids", parse_export(export),
                          SeqOfSet(export_get_all_movie_ids(export)))
    /\ UNCHANGED <<db, export, prev, pre, env, vr, appr, obs, client, limiter, quick>>

\* TMDBExportHandler.get_movies_by_popularity
GetMoviesByPopularity ==
    /\ Setup
    /\ \E min_popularity \in MinPopularities :
          last' = ExportCall("get_movies_by_popularity", parse_export(export),
                             get_movies_by_popularity(export, min_popularity))
    /\ UNCHANGED <<db, export, prev, pre, env, vr, appr, obs, client, limiter, quick>>

NextExport == GetAllMovieIds \/ GetMoviesByPopularity

SpecExport == InitExport /\ [][NextExport]_vars

Streamed == last.op \in {"get_all_movie_ids", "get_movies_by_popularity"}

WellFormed(l) == l.kind = "ok"

\* The records of the well-formed non-adult lines, in the order of the lines.
RECURSIVE RecordsOf(_)
RecordsOf(lines) ==
    IF lines = <<>> THEN <<>>
    ELSE LET l == Head(lines)
         IN (IF WellFormed(l) /\ ~l.adult THEN <<ExportMovie(l.id, l.popularity)>> ELSE <<>>)
                \o RecordsOf(Tail(lines))

\* The yielded records are records of non-adult lines, line by line.
FromNonAdultLines ==
    \E at \in [DOMAIN last.yielded -> DOMAIN export] :
        /\ \A i, j \in DOMAIN at : i < j => at[i] < at[j]
        /\ \A i \in DOMAIN at :
              /\ ~export[at[i]].adult
              /\ WellFormed(export[at[i]])
              /\ last.yielded[i] = ExportMovie(export[at[i]].id, export[at[i]].popularity)

\* C22: whichever consumer drives the stream, parse_export yields no record
\* of a line with the adult flag set, and it yields the record of every
\* well-formed non-adult line of the snapshot.
C22_AdultFiltered ==
    Streamed => /\ FromNonAdultLines
                /\ last.yielded = RecordsOf(export)

\* C23: a line that cannot be turned into a record (not JSON, no id, not an
\* object) is skipped: the stream does not raise and the record of every
\* well-formed non-adult line after the bad line is still yielded.
C23_BadLineSkipped ==
    Streamed => /\ ~last.raised
                /\ \A b \in DOMAIN export :
                      ~WellFormed(export[b]) =>
                          \E k \in 0..Len(last.yielded) :
                              SubSeq(last.yielded, k + 1, Len(last.yielded))
                                  = RecordsOf(SubSeq(export, b + 1, Len(export)))

(***************************************************************************)
(* The full crawl under a test limit, started on empty stores.             *)
(***************************************************************************)
LimitedCrawl ==
    /\ last.op = "initial_ingest"
    /\ pre = EmptyDb
    /\ last.test_limit # 0

\* The first n candidate IDs of the run were fetched / were written.
FirstFetched(n) ==
    /\ Len(last.cands) >= n
    /\ \A i \in 1..n : /\ last.cands[i] \notin env.down
                       /\ ~CatalogAdult(last.cands[i])
                       /\ CatalogDate(last.cands[i]) # NoDate

FirstWritten(n) == \A i \in 1..n : last.cands[i] \notin env.wf

NextRejectCall ==
    \/ Setup /\ InsertMovie(FALSE)
    \/ Setup /\ InsertPendingMovie(FALSE)
    \/ Setup /\ DeletePendingMovie(TRUE)
    \/ Setup /\ DeletePendingMoviesBulk(TRUE)
    \/ Setup /\ DeleteAllPending(TRUE)

SpecRejectCall == Init /\ [][NextRejectCall]_vars

\* The staged IDs the recorded call removed.
Removed == get_pending_movie_ids(pre) \ StagedIds

\* C25: delete_pending_movies_bulk returns exactly the input IDs that were
\* staged and that the call removed, delete_pending_movie returns false for
\* an ID that is not staged, and delete_all_pending returns the number of
\* staged records it removed and leaves staged empty.
C25_DeletedReported ==
    /\ last.op = "delete_pending_movies_bulk" =>
          RangeOf(last.ret) = RangeOf(last.ids) \cap Removed
    /\ (last.op = "delete_pending_movie" /\ last.id \notin get_pending_movie_ids(pre))
          => ~last.ret
    /\ last.op = "delete_all_pending" =>
          /\ last.ret = Cardinality(Removed)
          /\ StagedIds = {}

(***************************************************************************)
(* The missing IDs by popularity, asked for after a verification.  A limit *)
(* is given or left out (None); limit = 0 with given off is None.          *)
(***************************************************************************)
MissingCall(min_popularity, limit, given, ret, raised) ==
    [op |-> "get_missing_by_popularity", min_popularity |-> min_popularity,
     limit |-> limit, given |-> given, ret |-> ret, raised |-> raised]

\* DatabaseVerifier.get_missing_by_popularity with the result of the
\* verification before.
GetMissingByPopularity ==
    /\ last.op = "verify_database"
    /\ \E min_popularity \in MinPopularities, limit \in TestLimits, given \in BOOLEAN :
          /\ ~given => limit = 0
          /\ last' = MissingCall(min_popularity, limit, given,
                                 get_missing_by_popularity(vr, export, min_popularity, limit),
                                 vr.missing_ids # <<>> /\ parse_export(export).raised)
    /\ prev' = last
    /\ UNCHANGED <<db, export, pre, env, vr, appr, obs, client, limiter, quick>>

NextMissing == VerifyDatabase \/ GetMissingByPopularity

SpecMissing == InitVerify /\ [][NextMissing]_vars

\* The export records of the missing IDs with at least the asked popularity.
Eligible ==
    {m \in RangeOf(parse_export(export).movies) :
        m.id \in RangeOf(vr.missing_ids) /\ m.popularity >= last.min_popularity}

\* C26: get_missing_by_popularity returns pairs of missing IDs with their
\* export popularity, each at least min_popularity, in descending order of
\* popularity, leaving out no eligible missing ID more popular than a
\* returned one, and at most limit pairs for every limit given.
C26_MissingByPopularity ==
    (last.op = "get_missing_by_popularity" /\ ~last.raised) =>
        /\ \A i \in DOMAIN last.ret : last.ret[i] \in Eligible
        /\ \A i, j \in DOMAIN last.ret :
              i < j => last.ret[i].popularity >= last.ret[j].popularity
        /\ \A m \in Eligible : \A i \in DOMAIN last.ret :
              m.popularity > last.ret[i].popularity => m \in RangeOf(last.ret)
        /\ last.given => Len(last.ret) <= last.limit

(***************************************************************************)
(* approve_movie statement by statement with a concurrent                  *)
(* delete_pending_movie.  The rejection is one transaction on its own      *)
(* connection: it takes effect at its commit, and it waits while the       *)
(* promotion transaction holds the locks of its DELETEs on the pending     *)
(* rows.                                                                   *)
(***************************************************************************)
PendingLocked == appr.pc = "tx" /\ appr.k > InsertStatements

RejectConcurrently == Setup /\ ~PendingLocked /\ DeletePendingMovie(TRUE)

NextRace ==
    \/ (appr.pc = "idle" /\ Setup) /\ InsertPendingMovie(FALSE)
    \/ ApproveBegin
    \/ ApproveStatement
    \/ ApproveCommit
    \/ RejectConcurrently

SpecRace == Init /\ [][NextRace]_vars

\* The rejection of a staged ID that was not in production committed.
Rejected ==
    /\ last.op = "delete_pending_movie"
    /\ last.ret
    /\ last.id \in DOMAIN pre.movies_pending
    /\ last.id \notin DOMAIN pre.movies

\* C27: with approve_movie(id) and delete_pending_movie(id) concurrent on a
\* staged ID, once the rejection committed the ID is never in production, a
\* promotion returns true only if the ID was staged when its transaction
\* committed, and the two never both take effect.
C27_ExactlyOne ==
    /\ [](Rejected => last.id \notin ProductionIds)
    /\ []((Rejected /\ appr.pc = "done" /\ appr.id = last.id) => ~appr.ret)
    /\ [][(appr.pc = "tx" /\ appr'.pc = "done" /\ appr'.ret) => appr.id \in StagedIds]_vars

(***************************************************************************)
(* approve_all_quick step by step on a store built by inserts, nothing     *)
(* else running.  The counters stop counting at ReviewCap, which is more   *)
(* than the staged set can hold, and seen at two reviews of an ID.         *)
(***************************************************************************)
ReviewCap == MaxId + 1

CountUp(n, cap) == Min(n + 1, cap)

\* approve_all_quick up to the confirmation.
QuickConfirm ==
    /\ quick.pc = "idle"
    /\ \E batch_size \in 1..MaxBulk :
          quick' = IF get_pending_count(db) = 0
                      THEN [quick EXCEPT !.pc = "done"]
                      ELSE [quick EXCEPT !.pc = "fetch", !.batch_size = batch_size]
    /\ UNCHANGED <<db, export, last, prev, pre, env, vr, appr, obs, client, limiter>>

\* approve_all_quick, the head of the while loop: the next batch, or the
\* end when nothing is staged.
QuickFetch ==
    /\ quick.pc = "fetch"
    /\ LET pending == get_pending_movies_ordered(db, quick.batch_size)
       IN quick' = IF pending = <<>>
                      THEN [quick EXCEPT !.pc = "done",
                                         !.remaining_pending = get_pending_count(db)]
                      ELSE [quick EXCEPT !.pc = "batch", !.batch = pending]
    /\ UNCHANGED <<db, export, last, prev, pre, env, vr, appr, obs, client, limiter>>

\* approve_all_quick, one pass of the for loop over the batch.
QuickApprove ==
    /\ quick.pc = "batch"
    /\ \E fail \in {0, ApproveStatements} :
          LET id == Head(quick.batch)
              r == approve_movie(db, id, fail)
              counted == [quick EXCEPT !.reviewed = CountUp(@, ReviewCap),
                                       !.seen[id] = CountUp(@, 2),
                                       !.batch = Tail(@),
                                       !.pc = IF Tail(quick.batch) = <<>> THEN "fetch"
                                                                          ELSE "batch"]
          IN /\ db' = r.db
             /\ quick' = IF r.ret
                            THEN [counted EXCEPT !.approved = CountUp(@, ReviewCap)]
                            ELSE [counted EXCEPT !.skipped = CountUp(@, ReviewCap)]
    /\ UNCHANGED <<export, last, prev, pre, env, vr, appr, obs, client, limiter>>

NextQuick ==
    \/ quick.pc = "idle" /\ InsertMovie(FALSE)
    \/ quick.pc = "idle" /\ InsertPendingMovie(FALSE)
    \/ QuickConfirm
    \/ QuickFetch
    \/ QuickApprove

SpecQuick == Init /\ [][NextQuick]_vars

\* The loop is one thread: a call that started takes its next step.
SpecQuickLive == SpecQuick /\ WF_vars(QuickFetch) /\ WF_vars(QuickApprove)

\* C28: once confirmed, approve_all_quick ends whatever is staged, also when
\* promotions fail every time, and it reviews each staged record at most
\* once.
C28_QuickTerminates ==
    /\ (quick.pc \in {"fetch", "batch"}) ~> (quick.pc = "done")
    /\ [](\A id \in IDs : quick.seen[id] <= 1)

(***************************************************************************)
(* The counters a strategy run returns.                                    *)
(***************************************************************************)
Returned == StrategyRan /\ ~last.raised

\* The records of both stores.
RowCount(d) == Cardinality(DOMAIN d.movies) + Cardinality(DOMAIN d.movies_pending)

OutcomeSum(s) ==
    s.inserted + s.updated + s.skipped_existing + s.skipped_adult + s.skipped_no_date
        + s.errors

\* C29: the counters a strategy run returns add up, processed = inserted +
\* updated + skipped_existing + skipped_adult + skipped_no_date + errors
\* with one count of processed per candidate ID, and inserted is the number
\* of records the run added to the store.
C29_CountersAddUp ==
    Returned =>
        /\ last.stats.processed = OutcomeSum(last.stats)
        /\ last.stats.processed = Len(last.cands)
        /\ last.stats.inserted = RowCount(db) - RowCount(pre)

C29_Witness ==
    /\ Returned
    /\ last.op = "initial_ingest"
    /\ last.stats.inserted >= 1
    /\ last.stats.errors >= 1
    /\ last.stats.skipped_existing >= 1
    /\ RowCount(pre) >= 1

(***************************************************************************)
(* One recorded strategy run with an export snapshot that is a day old:    *)
(* the upstream has flagged record 5 adult since the snapshot was made.    *)
(***************************************************************************)
StaleExport == [i \in IDs |-> ExportLine(i, FALSE, CatalogPopularity(i))]

InitStale ==
    /\ db \in StrategyStores
    /\ export = StaleExport
    /\ last = NoCall
    /\ prev = NoCall
    /\ pre = EmptyDb
    /\ env = NoFaults
    /\ vr = NoResult
    /\ appr = Idle
    /\ obs = NoObs
    /\ client = NoClient
    /\ limiter = NoLimiter
    /\ quick = NoQuick

SpecStaleCall == InitStale /\ [][NextStrategyCall]_vars

\* The candidates of the recorded run that the upstream answers with an
\* adult-flagged record.
AdultCandidates ==
    {i \in DOMAIN last.cands :
        /\ last.cands[i] \in CatalogIds \ env.down
        /\ CatalogAdult(last.cands[i])}

\* C30: in every ingesting strategy a candidate ID whose upstream record is
\* adult-flagged is inserted into neither store and is counted under
\* skipped_adult, not under errors.
C30_AdultSkipped ==
    (Returned /\ last.op # "differential_update") =>
        /\ \A i \in AdultCandidates : last.cands[i] \notin ProductionIds \cup StagedIds
        /\ last.stats.skipped_adult = Cardinality(AdultCandidates)

====
